---- MODULE Spec2Model ----
(***************************************************************************)
(* State-machine model of networkx/utils/configs.py (class Config: the     *)
(* scoped key/value store) and networkx/utils/backends.py (the algorithm   *)
(* registry, the lazily read plugin table and the _dispatch wrapper).      *)
(*                                                                         *)
(* Two machines share the module, each leaving the other's variables      *)
(* unchanged.  The configuration store: Spec (one instance, with-blocks),  *)
(* StoreSpec (single operations) and InstancesSpec (two instances of one   *)
(* type).  Registration and dispatch: DispatchSpec (normal dispatch) and   *)
(* HarnessSpec (the wrapper installed under NETWORKX_GRAPH_CONVERT).       *)
(***************************************************************************)
EXTENDS Integers, Sequences, FiniteSets, TLC

VARIABLES
    cfgType,          \* the defining type of the config instances
    created,          \* the instances that exist
    store,            \* instance -> ordered key/value pairs (slots or __dict__)
    _prev,            \* runtime class -> staged snapshot (class attribute _prev)
    _context_stack,   \* runtime class -> stack of snapshots (class attribute)
    stagedBy,         \* runtime class -> the instance whose __call__ took _prev
    scopes,           \* the with-blocks that are open, innermost last
    op,               \* the last configuration operation and its inputs
    outcome,          \* "ok" or the exception the last config operation raised
    forced,           \* NETWORKX_GRAPH_CONVERT: a plugin name, or NoPlugin
    installed,        \* entry points of group networkx.plugins in the environment
    _items,           \* PluginInfo._items: FALSE is None, TRUE is the loaded table
    imported,         \* the plugins whose entry point's load() has run in this process
    _registered_algorithms, \* name -> wrapper id, as pairs in insertion order
    wrappers,         \* the wrappers built so far; a wrapper's id is its index
    call,             \* the registration or dispatch call in progress, or Idle
    events,           \* what the last call did, in order
    result            \* how the last call ended

cfgVars == <<cfgType, created, store, _prev, _context_stack, stagedBy, scopes, op,
             outcome>>
dispVars == <<forced, installed, _items, imported, _registered_algorithms, wrappers,
              call, events, result>>
vars == <<cfgVars, dispVars>>

(***************************************************************************)
(* Bounds                                                                  *)
(***************************************************************************)
MaxVal == 2        \* valid config values are 1..MaxVal
MaxDepth == 2      \* with-blocks open at once
MaxArgs == 3       \* arguments, positional and keyword, of one dispatch call
MaxRegs == 2       \* decorations performed in one process

(***************************************************************************)
(* Ordered dictionaries: a sequence of <<key, value>> pairs, keys distinct *)
(* (Python dict, dataclass fields and __dict__ keep insertion order).      *)
(***************************************************************************)
DKeys(d) == [n \in 1..Len(d) |-> d[n][1]]
DKeySet(d) == {d[n][1] : n \in 1..Len(d)}
DHas(d, k) == k \in DKeySet(d)
DGet(d, k) == LET n == CHOOSE m \in 1..Len(d) : d[m][1] = k IN d[n][2]
DPut(d, k, v) ==
    IF DHas(d, k)
    THEN [n \in 1..Len(d) |-> IF d[n][1] = k THEN <<k, v>> ELSE d[n]]
    ELSE Append(d, <<k, v>>)
DDel(d, k) == SelectSeq(d, LAMBDA p : p[1] # k)
DItems(d) == {d[n] : n \in 1..Len(d)}
\* dict == dict and ItemsView == ItemsView both ignore order
DEq(d1, d2) == DItems(d1) = DItems(d2)

(***************************************************************************)
(* Config: two subclasses after the class docstring.                       *)
(*   MyConfig        strict, fields eggs and spam, hook asserts value >= 0 *)
(*   FlexibleConfig  strict=False, one declared field eggs, inherited hook *)
(***************************************************************************)
Insts == {"A", "B"}
CfgTypes == {"MyConfig", "FlexibleConfig"}
\* keys the program writes: the declared fields and one undeclared name
CfgKeys(t) == IF t = "MyConfig" THEN {"eggs", "spam", "name"} ELSE {"eggs", "name"}
GoodVals == 1..MaxVal
BadVal == -1
\* values the program writes: MyConfig's hook rejects BadVal; FlexibleConfig
\* has no hook, and its added key takes one value
CfgVals(t, k) ==
    IF t = "MyConfig" THEN GoodVals \cup {BadVal}
    ELSE IF k = "eggs" THEN GoodVals ELSE {1}

_strict(t) == t = "MyConfig"
\* __dataclass_fields__ of the type, in declaration order
Fields(t) == IF t = "MyConfig" THEN <<"eggs", "spam">> ELSE <<"eggs">>

\* no instance: the staged entry is None
Nobody == "-"
\* class._prev: None, or the dict(self) an override call took
NoSnap == [some |-> FALSE, d |-> <<>>]
Snap(d) == [some |-> TRUE, d |-> d]

\* dataclass(slots=cls._strict) builds a new class for every strict instance
\* and returns the defining class itself for a flexible one
ClassOf(t, i) == IF _strict(t) THEN i ELSE "T"
ClassIds == Insts \cup {"T"}

\* The names backends.py defines at module level
BackendsGlobals ==
    {"PluginInfo", "plugins", "_registered_algorithms", "_register_algo",
     "_dispatch", "test_override_dispatch", "_mark_tests"}

\* A priority value is [list, items]: whether it is a list, and its items as
\* [str, name]: whether the item is a string, and that string
PriorityNames(value) == {value.items[n].name : n \in 1..Len(value.items)}

\* BackendPriorities._on_setattr after its import statement, given the two
\* imported objects: the backend table and the names of the registry
priority_checks(key, value, backend_info, registered) ==
    IF key \in {"algos", "generators"}
    THEN IF ~(value.list /\ \A n \in 1..Len(value.items) : value.items[n].str)
         THEN [ok |-> FALSE, err |-> "TypeError", value |-> value]
         ELSE IF PriorityNames(value) \ backend_info # {}
         THEN [ok |-> FALSE, err |-> "ValueError", value |-> value]
         ELSE [ok |-> TRUE, err |-> "ok", value |-> value]
    ELSE IF key \notin registered
    THEN [ok |-> FALSE, err |-> "AttributeError", value |-> value]
    ELSE [ok |-> TRUE, err |-> "ok", value |-> value]

\* BackendPriorities._on_setattr: `from .backends import _registered_algorithms,
\* backend_info` comes first and fails when backends.py lacks one of the names
BackendPriorities_on_setattr(key, value) ==
    IF ~({"_registered_algorithms", "backend_info"} \subseteq BackendsGlobals)
    THEN [ok |-> FALSE, err |-> "ImportError", value |-> value]
    ELSE priority_checks(key, value, installed, DKeySet(_registered_algorithms))

\* _on_setattr: [ok, value]
_on_setattr(t, key, value) ==
    IF t = "BackendPriorities"
    THEN BackendPriorities_on_setattr(key, value)
    ELSE IF t = "MyConfig"
    THEN [ok |-> value >= 0, err |-> "AssertionError", value |-> value]
    ELSE [ok |-> TRUE, err |-> "ok", value |-> value]

\* _on_delattr: Config's does nothing; BackendPriorities' refuses its two lists
_on_delattr(t, key) ==
    IF t = "BackendPriorities" /\ key \in {"algos", "generators"}
    THEN [ok |-> FALSE, err |-> "TypeError"]
    ELSE [ok |-> TRUE, err |-> "ok"]

\* dict(self): iterates __dataclass_fields__ (strict) or __dict__ (flexible)
Export(d) == d

\* A write that accepts any key
setattr_any_key(t, d, key, value) ==
    LET h == _on_setattr(t, key, value) IN
    IF ~h.ok
    THEN [err |-> h.err, d |-> d, clears |-> FALSE]
    ELSE [err |-> "ok", d |-> DPut(d, key, h.value), clears |-> TRUE]

\* A write that stores the value without asking the hook
setattr_unhooked(t, d, key, value) ==
    IF _strict(t) /\ ~DHas(d, key)
    THEN [err |-> "AttributeError", d |-> d, clears |-> FALSE]
    ELSE [err |-> "ok", d |-> DPut(d, key, value), clears |-> TRUE]

\* Config.__setattr__ on the pairs d of an instance of type t:
\* [err, d, clears] where clears says that class._prev was set to None
__setattr__(t, d, key, value) ==
    IF _strict(t) /\ ~DHas(d, key)
    THEN [err |-> "AttributeError", d |-> d, clears |-> FALSE]
    ELSE LET h == _on_setattr(t, key, value) IN
         IF ~h.ok
         THEN [err |-> h.err, d |-> d, clears |-> FALSE]
         ELSE [err |-> "ok", d |-> DPut(d, key, h.value), clears |-> TRUE]

\* A deletion that does not ask the hook and does not look at strictness
delattr_unguarded(t, d, key) ==
    IF ~DHas(d, key)
    THEN [err |-> "AttributeError", d |-> d, clears |-> FALSE]
    ELSE [err |-> "ok", d |-> DDel(d, key), clears |-> TRUE]

\* Config.__delattr__
__delattr__(t, d, key) ==
    IF _strict(t)
    THEN [err |-> "TypeError", d |-> d, clears |-> FALSE]
    ELSE LET h == _on_delattr(t, key) IN
         IF ~h.ok
         THEN [err |-> h.err, d |-> d, clears |-> FALSE]
         ELSE IF ~DHas(d, key)
              THEN [err |-> "AttributeError", d |-> d, clears |-> FALSE]
              ELSE [err |-> "ok", d |-> DDel(d, key), clears |-> TRUE]

\* __setitem__ / __delitem__ turn AttributeError into KeyError
AsKeyError(e) == IF e = "AttributeError" THEN "KeyError" ELSE e

\* A declared field with a class-level default (FlexibleConfig: eggs: int = 1,
\* as default_greeting: str = "Hello" in the docstring): the default is a
\* class attribute, which getattr finds when the instance holds no value
HasDefault(t, key) == t = "FlexibleConfig" /\ key = "eggs"
DefaultOf(t, key) == 1

\* Python None as a value read
NoneVal == 0

\* What a read finds that is no config value: nothing, a class variable with
\* its value, a bound method, or another attribute of the class
NoObj == [kind |-> "none"]
\* The methods and class attributes the body of Config defines (lines 71-210)
ConfigMethods ==
    {"__init_subclass__", "__new__", "_on_setattr", "_on_delattr", "__dir__",
     "__setattr__", "__delattr__", "__contains__", "__iter__", "__len__",
     "__reversed__", "__getitem__", "__setitem__", "__delitem__",
     "_ipython_key_completions_", "get", "items", "keys", "values", "__eq__",
     "__reduce__", "_deserialize", "__call__", "__enter__", "__exit__"}
\* The names getattr finds on the class when the instance holds no such value:
\* the methods, what @dataclass (line 9 and lines 83-89), the class statement
\* and object leave on the class (a flexible class is built without slots, so
\* that its instances have __dict__ and __weakref__), and the class variables
\* __init_subclass__ and __new__ set (lines 72, 92-94)
ClassAttrs(t) ==
    ConfigMethods
    \cup {"__annotations__", "__dataclass_fields__", "__dataclass_params__", "__doc__",
          "__init__", "__module__", "__repr__", "__slots__", "__hash__", "__class__",
          "__format__", "__ge__", "__getattribute__", "__getstate__", "__gt__", "__le__",
          "__lt__", "__ne__", "__reduce_ex__", "__sizeof__", "__str__", "__subclasshook__"}
    \cup (IF _strict(t) THEN {} ELSE {"__dict__", "__weakref__"})
    \cup {"_strict", "_orig_class", "_prev", "_context_stack"}
\* The class variables of a config's class, as a read sees them
ClassVars(c) == [_prev |-> _prev[c], _context_stack |-> _context_stack[c]]
\* getattr(type(self), key) for a name of ClassAttrs(t)
ClassAttr(t, key, cls) ==
    IF key = "_strict" THEN [kind |-> "bool", b |-> _strict(t)]
    ELSE IF key = "_prev" THEN [kind |-> "_prev", snap |-> cls._prev]
    ELSE IF key = "_context_stack" THEN [kind |-> "_context_stack", stack |-> cls._context_stack]
    ELSE IF key \in ConfigMethods \cup {"__init__", "__repr__"}
    THEN [kind |-> "method", name |-> key]
    ELSE [kind |-> "attribute", name |-> key]

\* getattr(self, key): [err, value, obj]
getattr_config(t, d, key, cls) ==
    IF DHas(d, key) THEN [err |-> "ok", value |-> DGet(d, key), obj |-> NoObj]
    ELSE IF HasDefault(t, key)
    THEN [err |-> "ok", value |-> DefaultOf(t, key), obj |-> NoObj]
    ELSE IF key \in ClassAttrs(t)
    THEN [err |-> "ok", value |-> NoneVal, obj |-> ClassAttr(t, key, cls)]
    ELSE [err |-> "AttributeError", value |-> NoneVal, obj |-> NoObj]

\* A bracket read that gives None for a missing key
getitem_or_none(t, d, key, cls) ==
    [getattr_config(t, d, key, cls) EXCEPT !.err = "ok"]

\* Config.__getitem__: [err, value, obj]
__getitem__(t, d, key, cls) ==
    LET r == getattr_config(t, d, key, cls) IN
    [r EXCEPT !.err = AsKeyError(r.err)]

\* Config.get(key, default)
get(t, d, key, default, cls) ==
    LET r == getattr_config(t, d, key, cls) IN
    IF r.err = "ok" THEN r ELSE [err |-> "ok", value |-> default, obj |-> NoObj]

\* Config.__contains__, __iter__, __len__
__contains__(t, d, key) ==
    IF _strict(t) THEN key \in {Fields(t)[n] : n \in 1..Len(Fields(t))} ELSE DHas(d, key)
__iter__(t, d) == IF _strict(t) THEN Fields(t) ELSE DKeys(d)
__len__(t, d) == Len(__iter__(t, d))

\* Config.__eq__ of two instances of the same defining type: ItemsView
\* equality is Set.__eq__: equal lengths, and every (key, value) of self is
\* in other.items(), i.e. other[key] exists and equals value; cls1 and cls2
\* are the class variables of self's and of other's class
__eq__(t, d1, d2, cls1, cls2) ==
    /\ __len__(t, d1) = __len__(t, d2)
    /\ \A n \in 1..Len(__iter__(t, d1)) :
          LET key == __iter__(t, d1)[n]
              mine == __getitem__(t, d1, key, cls1)
              theirs == __getitem__(t, d2, key, cls2) IN
          theirs.err = "ok" /\ theirs.value = mine.value /\ theirs.obj = mine.obj

\* cls(**kwargs): Config.__new__ and the dataclass __init__ it calls, which
\* binds the keywords to the fields and assigns each field: [err, d]
RECURSIVE InitFields(_, _, _, _)
InitFields(t, kwargs, n, d) ==
    IF n > Len(Fields(t)) THEN [err |-> "ok", d |-> d]
    ELSE LET f == Fields(t)[n]
             v == IF DHas(kwargs, f) THEN DGet(kwargs, f) ELSE DefaultOf(t, f)
             r == IF _strict(t)
                  THEN LET h == _on_setattr(t, f, v) IN
                       [err |-> IF h.ok THEN "ok" ELSE h.err, d |-> DPut(d, f, h.value)]
                  ELSE LET w == __setattr__(t, d, f, v) IN [err |-> w.err, d |-> w.d] IN
         IF r.err # "ok" THEN [err |-> r.err, d |-> <<>>]
         ELSE InitFields(t, kwargs, n + 1, r.d)
__new__(t, kwargs) ==
    LET fields == {Fields(t)[n] : n \in 1..Len(Fields(t))} IN
    IF ~(DKeySet(kwargs) \subseteq fields) THEN [err |-> "TypeError", d |-> <<>>]
    ELSE IF \E f \in fields : ~DHas(kwargs, f) /\ ~HasDefault(t, f)
    THEN [err |-> "TypeError", d |-> <<>>]
    ELSE InitFields(t, kwargs, 1, <<>>)

\* Config.__reduce__ followed by Config._deserialize(cls, kwargs)
_deserialize(t, d) == __new__(t, Export(d))


\* Whether the class of an instance of type t defines _check_config: neither
\* Config nor any subclass in configs.py does, so line 192 raises AttributeError
HasCheckConfig(t) == FALSE

\* for key, val in items: setattr(self, key, val), stopping at the first error:
\* [err, d, clears]
RECURSIVE SetAll(_, _, _, _)
SetAll(t, d, items, cleared) ==
    IF items = <<>>
    THEN [err |-> "ok", d |-> d, clears |-> cleared]
    ELSE LET r == __setattr__(t, d, items[1][1], items[1][2]) IN
         IF r.err # "ok"
         THEN [err |-> r.err, d |-> d, clears |-> cleared]
         ELSE SetAll(t, r.d, Tail(items), TRUE)

\* Config.__call__(**kwargs): [err, d, prev] with prev the new class._prev
__call__(t, d, staged, kwargs) ==
    IF kwargs # <<>> /\ ~HasCheckConfig(t)
    THEN [err |-> "AttributeError", d |-> d, prev |-> staged]
    ELSE LET r == SetAll(t, d, kwargs, FALSE) IN
         IF r.err # "ok"
         THEN [err |-> r.err, d |-> r.d,
               prev |-> IF r.clears THEN NoSnap ELSE staged]
         ELSE [err |-> "ok", d |-> r.d, prev |-> Snap(Export(d))]

\* An exit that leaves the stack as it is
KeepAll(stk) == stk

\* _context_stack.pop(): the stack that remains
Pop(stk) == SubSeq(stk, 1, Len(stk) - 1)

\* `not prev` of __exit__: None and the empty dict are both falsy
Falsy(s) == ~s.some \/ s.d = <<>>

\* Config.__exit__ after the pop: [err, d, clears]
RestoreTop(t, d, top) ==
    IF Falsy(top)
    THEN [err |-> "ok", d |-> d, clears |-> TRUE]
    ELSE SetAll(t, d, top.d, FALSE)

(***************************************************************************)
(* The configuration store as a state machine                              *)
(***************************************************************************)
NoOp == [name |-> "new", inst |-> "A", kw |-> <<>>, exc |-> FALSE,
         override |-> FALSE, pre |-> <<>>, value |-> NoneVal, obj |-> NoObj]

\* keyword arguments of an override call: none, or one key
Kwargs(t) == {<<>>} \cup UNION {{<< <<k, v>> >> : v \in CfgVals(t, k)} : k \in CfgKeys(t)}

\* Config.__new__ for the first instance, with valid field values
CfgInit ==
    /\ cfgType \in CfgTypes
    /\ created = {"A"}
    /\ \E e \in GoodVals, s \in GoodVals :
          store = [i \in Insts |->
                     IF i # "A" THEN <<>>
                     ELSE IF cfgType = "MyConfig"
                          THEN << <<"eggs", e>>, <<"spam", s>> >>
                          ELSE << <<"eggs", e>> >>]
    /\ _prev = [c \in ClassIds |-> NoSnap]
    /\ _context_stack = [c \in ClassIds |-> <<>>]
    /\ stagedBy = [c \in ClassIds |-> Nobody]
    /\ scopes = <<>>
    /\ op = NoOp
    /\ outcome = "ok"

\* The programs explored: inside a with-block an override call is the head of
\* a nested `with cfg(...):`, so its scope is entered at once; outside any
\* block the override call may also stand alone (`cfg(...)` with no `with`).
MustEnter == op.name = "call" /\ outcome = "ok" /\ scopes # <<>>

Written(i, r) ==
    LET c == ClassOf(cfgType, i) IN
    /\ store' = [store EXCEPT ![i] = r.d]
    /\ _prev' = IF r.clears THEN [_prev EXCEPT ![c] = NoSnap] ELSE _prev
    /\ stagedBy' = IF r.clears THEN [stagedBy EXCEPT ![c] = Nobody] ELSE stagedBy

\* cfg.key = value
SetAttr(i, k, v) ==
    LET r == __setattr__(cfgType, store[i], k, v) IN
    /\ ~MustEnter
    /\ Written(i, r)
    /\ outcome' = r.err
    /\ op' = [NoOp EXCEPT !.name = "setattr", !.inst = i]
    /\ UNCHANGED <<cfgType, created, _context_stack, scopes>>
    /\ UNCHANGED dispVars

\* cfg[key] = value
SetItem(i, k, v) ==
    LET r == __setattr__(cfgType, store[i], k, v) IN
    /\ ~MustEnter
    /\ Written(i, r)
    /\ outcome' = AsKeyError(r.err)
    /\ op' = [NoOp EXCEPT !.name = "setitem", !.inst = i]
    /\ UNCHANGED <<cfgType, created, _context_stack, scopes>>
    /\ UNCHANGED dispVars

\* del cfg.key
DelAttr(i, k) ==
    LET r == __delattr__(cfgType, store[i], k) IN
    /\ ~MustEnter
    /\ Written(i, r)
    /\ outcome' = r.err
    /\ op' = [NoOp EXCEPT !.name = "delattr", !.inst = i]
    /\ UNCHANGED <<cfgType, created, _context_stack, scopes>>
    /\ UNCHANGED dispVars

\* del cfg[key]
DelItem(i, k) ==
    LET r == __delattr__(cfgType, store[i], k) IN
    /\ ~MustEnter
    /\ Written(i, r)
    /\ outcome' = AsKeyError(r.err)
    /\ op' = [NoOp EXCEPT !.name = "delitem", !.inst = i]
    /\ UNCHANGED <<cfgType, created, _context_stack, scopes>>
    /\ UNCHANGED dispVars

\* cfg(**kw)
Call(i, kw) ==
    LET c == ClassOf(cfgType, i)
        r == __call__(cfgType, store[i], _prev[c], kw) IN
    /\ ~MustEnter
    /\ scopes # <<>> => Len(scopes) < MaxDepth
    /\ store' = [store EXCEPT ![i] = r.d]
    /\ _prev' = [_prev EXCEPT ![c] = r.prev]
    /\ stagedBy' = [stagedBy EXCEPT ![c] = IF r.err = "ok" THEN i
                                           ELSE IF r.prev = NoSnap THEN Nobody ELSE @]
    /\ outcome' = r.err
    /\ op' = [NoOp EXCEPT !.name = "call", !.inst = i, !.kw = kw,
                          !.pre = IF r.err = "ok" THEN store[i] ELSE <<>>]
    /\ UNCHANGED <<cfgType, created, _context_stack, scopes>>
    /\ UNCHANGED dispVars

\* cfg.__enter__(): the with-block opens.  The block is remembered with the
\* keywords of its override call and the export the config had when that call
\* was made (`with cfg(...)`; a bare `with cfg:` has neither), and with the
\* entry its enter pushed and the instance that entry was taken from.
Enter(i) ==
    LET c == ClassOf(cfgType, i)
        ov == op.name = "call" /\ op.inst = i /\ outcome = "ok" IN
    /\ MustEnter => i = op.inst
    /\ Len(scopes) < MaxDepth
    /\ _context_stack' = [_context_stack EXCEPT ![c] = Append(@, _prev[c])]
    /\ _prev' = [_prev EXCEPT ![c] = NoSnap]
    /\ stagedBy' = [stagedBy EXCEPT ![c] = Nobody]
    /\ scopes' = Append(scopes, [inst |-> i, override |-> ov,
                                 kw |-> IF ov THEN op.kw ELSE <<>>,
                                 pre |-> IF ov THEN op.pre ELSE <<>>,
                                 pushed |-> _prev[c], by |-> stagedBy[c]])
    /\ outcome' = "ok"
    /\ op' = [NoOp EXCEPT !.name = "enter", !.inst = i, !.override = ov]
    /\ UNCHANGED <<cfgType, created, store>>
    /\ UNCHANGED dispVars

\* cfg.__exit__(exc_type, exc_value, traceback) of the innermost open block;
\* exc says whether the block is left by an exception.  __exit__ returns None,
\* so the exception propagates.
Exit(i, exc) ==
    LET c == ClassOf(cfgType, i)
        blk == scopes[Len(scopes)]
        stk == _context_stack[c] IN
    /\ ~MustEnter
    /\ scopes # <<>>
    /\ blk.inst = i
    /\ scopes' = SubSeq(scopes, 1, Len(scopes) - 1)
    /\ op' = [NoOp EXCEPT !.name = "exit", !.inst = i, !.exc = exc, !.kw = blk.kw,
                          !.override = blk.override]
    /\ IF stk = <<>>
       THEN /\ outcome' = "IndexError"
            /\ UNCHANGED <<store, _prev, _context_stack, stagedBy>>
       ELSE LET r == RestoreTop(cfgType, store[i], stk[Len(stk)]) IN
            /\ _context_stack' = [_context_stack EXCEPT ![c] = Pop(stk)]
            /\ Written(i, r)
            /\ outcome' = IF r.err # "ok" THEN r.err
                          ELSE IF exc THEN "propagates" ELSE "ok"
    /\ UNCHANGED <<cfgType, created>>
    /\ UNCHANGED dispVars

\* A read leaves everything but the record of the operation as it was
Read(i, name, r) ==
    /\ ~MustEnter
    /\ outcome' = r.err
    /\ op' = [NoOp EXCEPT !.name = name, !.inst = i, !.value = r.value, !.obj = r.obj]
    /\ UNCHANGED <<cfgType, created, store, _prev, _context_stack, stagedBy, scopes>>
    /\ UNCHANGED dispVars

\* cfg.key
GetAttr(i, k) ==
    Read(i, "getattr", getattr_config(cfgType, store[i], k, ClassVars(ClassOf(cfgType, i))))

\* cfg[key]
GetItem(i, k) ==
    Read(i, "getitem", __getitem__(cfgType, store[i], k, ClassVars(ClassOf(cfgType, i))))

\* cfg.get(key)
Get(i, k) ==
    Read(i, "get", get(cfgType, store[i], k, NoneVal, ClassVars(ClassOf(cfgType, i))))

\* The instance that does not exist yet
Other(i) == CHOOSE j \in Insts : j # i

\* pickle.loads(pickle.dumps(cfg)): __reduce__ and _deserialize build a second
\* instance from the defining type and dict(cfg); the program compares it with
\* cfg and drops it.  Config.__new__ sets _prev and _context_stack on the
\* runtime class, which for a flexible type is the class cfg itself uses.
Reconstruct(i) ==
    LET j == Other(i)
        c == ClassOf(cfgType, j)
        r == _deserialize(cfgType, store[i]) IN
    /\ ~MustEnter
    /\ j \notin created
    /\ store' = [store EXCEPT ![j] = r.d]
    /\ _prev' = [_prev EXCEPT ![c] = NoSnap]
    /\ stagedBy' = [stagedBy EXCEPT ![c] = Nobody]
    /\ _context_stack' = [_context_stack EXCEPT ![c] = <<>>]
    /\ outcome' = r.err
    /\ op' = [NoOp EXCEPT !.name = "reconstruct", !.inst = i]
    /\ UNCHANGED <<cfgType, created, scopes>>
    /\ UNCHANGED dispVars

\* cls(**kw) for a further instance j of the defining type: Config.__new__
\* sets _prev = None and _context_stack = [] on the runtime class (lines
\* 92-94), a new class for a strict type and the defining class itself, which
\* the existing instances use, for a flexible one; then __init__ assigns the
\* fields
New(j, kw) ==
    LET c == ClassOf(cfgType, j)
        r == __new__(cfgType, kw) IN
    /\ ~MustEnter
    /\ j \notin created
    /\ r.err = "ok"
    /\ created' = created \cup {j}
    /\ store' = [store EXCEPT ![j] = r.d]
    /\ _prev' = [_prev EXCEPT ![c] = NoSnap]
    /\ stagedBy' = [stagedBy EXCEPT ![c] = Nobody]
    /\ _context_stack' = [_context_stack EXCEPT ![c] = <<>>]
    /\ outcome' = "ok"
    /\ op' = [NoOp EXCEPT !.name = "new", !.inst = j, !.kw = kw]
    /\ UNCHANGED <<cfgType, scopes>>
    /\ UNCHANGED dispVars

(***************************************************************************)
(* backends.py: graph values, plugins and the decorated functions          *)
(***************************************************************************)
\* A graph argument: Python None, a native graph (no __networkx_plugin__),
\* or a graph whose __networkx_plugin__ is "sparse" or "demo"
GraphVals == {"None", "nx", "gs", "gd"}
Plugins == {"sparse", "demo", "nx-loopback"}
NoPlugin == "-"
hasattr_plugin(g) == g \in {"gs", "gd"}
\* getattr(g, "__networkx_plugin__", "networkx")
getattr_plugin(g) ==
    IF g = "gs" THEN "sparse" ELSE IF g = "gd" THEN "demo" ELSE "networkx"

\* hasattr(backend, name): the algorithms each backend module defines
Implements(p) ==
    IF p = "sparse" THEN {"foo", "pair", "edges", "nodes", "both", "ghost", "listed"}
    ELSE IF p = "demo" THEN {"foo"} ELSE {"pair"}

KwNames == {"G", "H"}
ArgSeqs == UNION {[1..n -> GraphVals] : n \in 0..MaxArgs}
KwMaps == UNION {[D -> GraphVals] : D \in SUBSET KwNames}

\* edge_attrs / node_attrs of a decoration: None, a string naming a parameter,
\* or a dict given as triples <<key, value, value is a string>>
AttrNone == [kind |-> "none", arg |-> "", map |-> <<>>]
AttrStr(a) == [kind |-> "str", arg |-> a, map |-> <<>>]
AttrDict(m) == [kind |-> "dict", arg |-> "", map |-> m]

\* The decorated functions of the process.  `graphs` is a string (isStr, str)
\* or a dict, given as its pairs <<key, position>> in insertion order.
\*   @_dispatch                                 def foo(G)
\*   @_dispatch(graphs={"G": 0, "H?": 1}, preserve_edge_attrs=True)
\*                                              def pair(G, H=None)
\*   @_dispatch(name="foo")                     def foo_v2(G)
\*   @_dispatch(graphs={})                      def bad(G)
\* and, replayed under NETWORKX_GRAPH_CONVERT only,
\*   @_dispatch(edge_attrs={"weight": "keep", "keep": "unit"},
\*              node_attrs="weight", preserve_edge_attrs="keep")
\*                                              def edges(G, weight=None, keep=None)
\*   @_dispatch(edge_attrs="weight", node_attrs={"weight": "keep"},
\*              preserve_edge_attrs=False, preserve_node_attrs="keep")
\*                                              def nodes(G, weight=None, keep=None)
\*   @_dispatch(edge_attrs={"weight": 2}, node_attrs={"weight": 2},
\*              preserve_edge_attrs=True, preserve_node_attrs=True)
\*                                              def both(G, weight=None, keep=None)
\*   @_dispatch(graphs={"G": 0, "X": 1})       def ghost(G, weight=None, keep=None)
\*   @_dispatch(edge_attrs="[weight]", node_attrs="[keep]")
\*                                              def listed(G, weight=None, keep=None)
NoAttrs == [edge_attrs |-> AttrNone, node_attrs |-> AttrNone,
            preserve_edge_attrs |-> "None", preserve_node_attrs |-> "None"]
Decl(func, name, isStr, str, graphs, attrs) ==
    [func |-> func, name |-> name, isStr |-> isStr, str |-> str, graphs |-> graphs,
     edge_attrs |-> attrs.edge_attrs, node_attrs |-> attrs.node_attrs,
     preserve_edge_attrs |-> attrs.preserve_edge_attrs,
     preserve_node_attrs |-> attrs.preserve_node_attrs]
Decls == <<
    Decl("foo", "", TRUE, "G", <<>>, NoAttrs),
    Decl("pair", "", FALSE, "",
         << <<"G", 0>>, <<"H?", 1>> >>,
         [NoAttrs EXCEPT !.preserve_edge_attrs = "True"]),
    Decl("foo_v2", "foo", TRUE, "G", <<>>, NoAttrs),
    Decl("bad", "", FALSE, "", <<>>, NoAttrs),
    Decl("edges", "", TRUE, "G", <<>>,
         [edge_attrs |-> AttrDict(<< <<"weight", "keep", TRUE>>,
                                     <<"keep", "unit", TRUE>> >>),
          node_attrs |-> AttrStr("weight"),
          preserve_edge_attrs |-> "'keep'", preserve_node_attrs |-> "None"]),
    Decl("nodes", "", TRUE, "G", <<>>,
         [edge_attrs |-> AttrStr("weight"),
          node_attrs |-> AttrDict(<< <<"weight", "keep", TRUE>> >>),
          preserve_edge_attrs |-> "False", preserve_node_attrs |-> "'keep'"]),
    Decl("both", "", TRUE, "G", <<>>,
         [edge_attrs |-> AttrDict(<< <<"weight", "2", FALSE>> >>),
          node_attrs |-> AttrDict(<< <<"weight", "2", FALSE>> >>),
          preserve_edge_attrs |-> "True", preserve_node_attrs |-> "True"]),
    Decl("ghost", "", FALSE, "",
         << <<"G", 0>>, <<"X", 1>> >>, NoAttrs),
    Decl("listed", "", TRUE, "G", <<>>,
         [NoAttrs EXCEPT !.edge_attrs = AttrStr("[weight]"),
                         !.node_attrs = AttrStr("[keep]")]) >>
\* the decorations of a normal process, and those of a replay under the harness
DispatchDecls == {k \in 1..Len(Decls) : Decls[k].func \in {"foo", "pair", "foo_v2", "bad"}}
HarnessDecls ==
    {k \in 1..Len(Decls) : Decls[k].func \in {"pair", "edges", "nodes", "both", "ghost", "listed"}}

\* inspect.signature(func): <<parameter, has a default>>
Signature(f) ==
    IF f = "pair" THEN << <<"G", FALSE>>, <<"H", TRUE>> >>
    ELSE IF f \in {"edges", "nodes", "both", "ghost", "listed"}
    THEN << <<"G", FALSE>>, <<"weight", TRUE>>, <<"keep", TRUE>> >>
    ELSE << <<"G", FALSE>> >>

\* Python's binding of (*args, **kwds) to a signature; a default is None
Bind(sig, args, kwds) ==
    LET names == {sig[n][1] : n \in 1..Len(sig)}
        byPos == {sig[n][1] : n \in (1..Len(sig)) \cap (1..Len(args))}
        given == byPos \cup DOMAIN kwds
        bad == \/ Len(args) > Len(sig)
               \/ ~(DOMAIN kwds \subseteq names)
               \/ byPos \cap DOMAIN kwds # {}
               \/ \E n \in 1..Len(sig) : ~sig[n][2] /\ sig[n][1] \notin given
    IN [ok |-> ~bad,
        bound |-> IF bad THEN <<>>
                  ELSE [n \in 1..Len(sig) |->
                          <<sig[n][1],
                            IF n <= Len(args) THEN args[n]
                            ELSE IF sig[n][1] \in DOMAIN kwds THEN kwds[sig[n][1]]
                            ELSE "None">>]]

\* How a call ends
NoResult == [kind |-> "none", exc |-> "", msg |-> "", tags |-> {},
             impl |-> "", value |-> <<>>, to_nx |-> FALSE]
Raise(exc, msg, tags) == [NoResult EXCEPT !.kind = "raise", !.exc = exc,
                                          !.msg = msg, !.tags = tags]

\* What an implementation (the native function, or a backend's method of the
\* same signature) does with the arguments it is handed: it returns a value
\* that depends on the implementation and the bound arguments, or the call
\* itself raises TypeError when the arguments do not bind
Invoke(impl, func, args, kwds) ==
    LET b == Bind(Signature(func), args, kwds) IN
    IF b.ok
    THEN [NoResult EXCEPT !.kind = "return", !.impl = impl, !.value = b.bound]
    ELSE [Raise("TypeError", "bind", {}) EXCEPT !.impl = impl]

NoEvent == [ev |-> "", who |-> "", name |-> "", args |-> <<>>, kwds |-> <<>>]
Ev(e, who) == [NoEvent EXCEPT !.ev = e, !.who = who]
EvCall(e, who, name, args, kwds) ==
    [ev |-> e, who |-> who, name |-> name, args |-> args, kwds |-> kwds]

\* lines 207-208: isinstance(graphs, str) gives {graphs: 0}
RawGraphs(decl) == IF decl.isStr THEN << <<decl.str, 0>> >> ELSE decl.graphs
\* k[-1] == "?" and the key the comprehension of lines 213-217 stores
IsOptionalKey(k) == k # "" /\ SubSeq(k, Len(k), Len(k)) = "?"
StripKey(k) == IF IsOptionalKey(k) THEN SubSeq(k, 1, Len(k) - 1) ELSE k
\* the error of the decoration's graph spec: len(graphs) == 0 raises KeyError
\* (line 210), k[-1] of an empty key raises IndexError (line 215)
graphs_error(decl) ==
    IF ~decl.isStr /\ Len(decl.graphs) = 0 THEN "KeyError"
    ELSE IF \E n \in 1..Len(RawGraphs(decl)) : RawGraphs(decl)[n][1] = "" THEN "IndexError"
    ELSE ""
\* {k[:-1] if k[-1] == "?" else k: v for k, v in graphs.items()}, from entry n
\* on: a key met again keeps its place and takes the later position
RECURSIVE StripGraphs(_, _, _)
StripGraphs(raw, n, acc) ==
    IF n > Len(raw) THEN acc
    ELSE StripGraphs(raw, n + 1, DPut(acc, StripKey(raw[n][1]), raw[n][2]))
\* graphs after lines 207-217, as <<name, name in optional_graphs, position>>
GraphsOf(decl) ==
    LET raw == RawGraphs(decl)
        opt == {StripKey(raw[n][1]) : n \in {m \in 1..Len(raw) : IsOptionalKey(raw[m][1])}}
        g == StripGraphs(raw, 1, <<>>) IN
    [n \in 1..Len(g) |-> <<g[n][1], g[n][1] \in opt, g[n][2]>>]
\* The "?" marker never recorded
optional_graphs_none(decl) == {}

\* optional_graphs
optional_graphs(decl) ==
    LET g == GraphsOf(decl) IN {g[n][1] : n \in {m \in 1..Len(g) : g[m][2]}}

\* wrapper, lines 224-246: the loop over graphs.items(), from entry n on:
\* [err, gname, resolved] with resolved the pairs <<gname, val>> so far
RECURSIVE Resolve(_, _, _, _, _, _)
Resolve(g, optional, n, args, kwds, resolved) ==
    IF n > Len(g)
    THEN [err |-> "", gname |-> "", resolved |-> resolved]
    ELSE LET gname == g[n][1]
             pos == g[n][3] IN
         IF pos < Len(args) /\ gname \in DOMAIN kwds
         THEN [err |-> "multiple values", gname |-> gname, resolved |-> resolved]
         ELSE IF ~(pos < Len(args)) /\ gname \notin DOMAIN kwds
         THEN IF gname \notin optional
              THEN [err |-> "missing", gname |-> gname, resolved |-> resolved]
              ELSE Resolve(g, optional, n + 1, args, kwds, resolved)
         ELSE LET val == IF pos < Len(args) THEN args[pos + 1] ELSE kwds[gname] IN
              IF val = "None"
              THEN IF gname \notin optional
                   THEN [err |-> "is None", gname |-> gname, resolved |-> resolved]
                   ELSE Resolve(g, optional, n + 1, args, kwds, resolved)
              ELSE Resolve(g, optional, n + 1, args, kwds,
                           Append(resolved, <<gname, val>>))

\* The resolution with the keywords never consulted
graphs_resolved_positional(decl, args, kwds) ==
    Resolve(GraphsOf(decl), optional_graphs(decl), 1, args, <<>>, <<>>)

\* The alternative of lines 248-253, which checks neither duplicated
\* arguments nor missing required graphs
graphs_resolved_unchecked(decl, args, kwds) ==
    LET g == GraphsOf(decl)
        val(n) == IF g[n][3] < Len(args) THEN args[g[n][3] + 1]
                  ELSE IF g[n][1] \in DOMAIN kwds THEN kwds[g[n][1]] ELSE "None"
        keep == SelectSeq([n \in 1..Len(g) |-> n], LAMBDA n : val(n) # "None")
    IN [err |-> "", gname |-> "",
        resolved |-> [m \in 1..Len(keep) |-> <<g[keep[m]][1], val(keep[m])>>]]

\* graphs_resolved of one call
graphs_resolved(decl, args, kwds) ==
    Resolve(GraphsOf(decl), optional_graphs(decl), 1, args, kwds, <<>>)

\* PluginInfo.items read by `in` and []: the entry points are read from the
\* environment when _items is None
ItemsRead(items) == IF items THEN <<>> ELSE <<Ev("entry_points", "")>>

\* The check replaced by "some graph was resolved"
AnyResolved(vals) == vals # {}

\* line 256: any(hasattr(g, "__networkx_plugin__") for g in graphs_resolved.values())
AnyFromPlugin(vals) == \E g \in vals : hasattr_plugin(g)

\* lines 258-261: the set of plugin names, "networkx" for a graph without one
PluginNames(vals) == {getattr_plugin(g) : g \in vals}

\* The comparison off by one
MoreThanTwoPlugins(plugin_names) == Cardinality(plugin_names) > 2

\* line 262
NotOnePlugin(plugin_names) == Cardinality(plugin_names) # 1

\* A routing that runs the native function when the backend lacks the method
RouteWithFallback(name, func, vals, args, kwds, inst, items) ==
    IF AnyFromPlugin(vals)
    THEN LET plugin_names == PluginNames(vals) IN
         IF NotOnePlugin(plugin_names)
         THEN [result |-> Raise("TypeError", "same plugin", plugin_names),
               events |-> <<>>, items |-> items]
         ELSE LET plugin_name == CHOOSE p \in plugin_names : TRUE IN
              IF plugin_name \notin inst
              THEN [result |-> Raise("ImportError", "unable to load", {plugin_name}),
                    events |-> ItemsRead(items), items |-> TRUE]
              ELSE [result |-> Invoke(IF name \in Implements(plugin_name)
                                      THEN plugin_name ELSE "networkx", func, args, kwds),
                    events |-> ItemsRead(items)
                               \o <<Ev("load", plugin_name)>>
                               \o (IF name \in Implements(plugin_name)
                                   THEN <<EvCall("backend", plugin_name, name, args, kwds)>>
                                   ELSE <<EvCall("native", "networkx", func, args, kwds)>>),
                    items |-> TRUE]
    ELSE [result |-> Invoke("networkx", func, args, kwds),
          events |-> <<EvCall("native", "networkx", func, args, kwds)>>,
          items |-> items]

\* wrapper, lines 255-276, once the graphs are resolved:
\* [result, events, items]
Route(name, func, vals, args, kwds, inst, items) ==
    IF AnyFromPlugin(vals)
    THEN LET plugin_names == PluginNames(vals) IN
         IF NotOnePlugin(plugin_names)
         THEN [result |-> Raise("TypeError", "same plugin", plugin_names),
               events |-> <<>>, items |-> items]
         ELSE LET plugin_name == CHOOSE p \in plugin_names : TRUE IN
              IF plugin_name \notin inst
              THEN [result |-> Raise("ImportError", "unable to load", {plugin_name}),
                    events |-> ItemsRead(items), items |-> TRUE]
              ELSE IF name \in Implements(plugin_name)
              THEN [result |-> Invoke(plugin_name, func, args, kwds),
                    events |-> ItemsRead(items)
                               \o <<Ev("load", plugin_name),
                                    EvCall("backend", plugin_name, name, args, kwds)>>,
                    items |-> TRUE]
              ELSE [result |-> Raise("NetworkXNotImplemented", "not implemented",
                                     {plugin_name}),
                    events |-> ItemsRead(items) \o <<Ev("load", plugin_name)>>,
                    items |-> TRUE]
    ELSE [result |-> Invoke("networkx", func, args, kwds),
          events |-> <<EvCall("native", "networkx", func, args, kwds)>>,
          items |-> items]

\* _dispatch's wrapper(*args, **kwds) for the function of decl registered as name
wrapper(name, decl, args, kwds, inst, items) ==
    LET r == graphs_resolved(decl, args, kwds) IN
    IF r.err # ""
    THEN [result |-> Raise("TypeError", r.err, {r.gname}),
          events |-> <<>>, items |-> items]
    ELSE Route(name, decl.func, {r.resolved[n][2] : n \in 1..Len(r.resolved)},
               args, kwds, inst, items)


(***************************************************************************)
(* test_override_dispatch: the wrapper used when NETWORKX_GRAPH_CONVERT     *)
(* names a plugin                                                           *)
(***************************************************************************)
\* What backend.convert_from_nx returns for a graph argument: a value of the
\* backend, different for every backend and argument
convert_from_nx(p, g) ==
    IF p = "sparse"
    THEN CASE g = "nx" -> "sparse(nx)" [] g = "gs" -> "sparse(gs)"
           [] g = "gd" -> "sparse(gd)" [] OTHER -> "sparse(None)"
    ELSE IF p = "demo"
    THEN CASE g = "nx" -> "demo(nx)" [] g = "gs" -> "demo(gs)"
           [] g = "gd" -> "demo(gd)" [] OTHER -> "demo(None)"
    ELSE CASE g = "nx" -> "loopback(nx)" [] g = "gs" -> "loopback(gs)"
           [] g = "gd" -> "loopback(gd)" [] OTHER -> "loopback(None)"

\* A value is None, a boolean, an integer, a float, a string, a list of
\* values or a graph, written as repr prints it: None, True, False, a number
\* in its digits, a string between single quotes, a list between brackets;
\* nx, gs and gd are three graph objects.  Strings hold no quote and no
\* backslash.
\* The characters of a string, in order
RECURSIVE Chars(_)
Chars(s) ==
    IF s = "" THEN <<>>
    ELSE IF Len(s) = 1 THEN <<s>>
    ELSE Chars(SubSeq(s, 1, Len(s) \div 2)) \o Chars(SubSeq(s, Len(s) \div 2 + 1, Len(s)))
\* isinstance(value, str), the text of a string and the string of a text
IsString(v) == v # "" /\ Head(v) = "'"
StrOf(v) == SubSeq(v, 2, Len(v) - 1)
\* isinstance(value, list)
IsList(v) == v # "" /\ Head(v) = "["
\* The elements of the list whose text between the brackets is s: cur is the
\* element being read, depth the brackets open in it, quoted whether a string
\* is open in it
RECURSIVE Elements(_, _, _, _, _)
Elements(s, depth, quoted, cur, acc) ==
    IF s = "" THEN (IF cur = "" THEN acc ELSE Append(acc, cur))
    ELSE LET c == Head(s) IN
         IF quoted THEN Elements(Tail(s), depth, c # "'", cur \o c, acc)
         ELSE IF c = "'" THEN Elements(Tail(s), depth, TRUE, cur \o c, acc)
         ELSE IF c = "[" THEN Elements(Tail(s), depth + 1, FALSE, cur \o c, acc)
         ELSE IF c = "]" THEN Elements(Tail(s), depth - 1, FALSE, cur \o c, acc)
         ELSE IF c = "," /\ depth = 0 THEN Elements(Tail(s), 0, FALSE, "", Append(acc, cur))
         ELSE IF c = " " /\ cur = "" THEN Elements(Tail(s), depth, FALSE, cur, acc)
         ELSE Elements(Tail(s), depth, FALSE, cur \o c, acc)
\* A number as repr prints it: an integer in its digits; a float with a point
\* (1.0, 0.25) when 1e-4 <= |x| < 1e16, else with an exponent of at least two
\* digits (1e+16, 1.5e-05), or inf; repr gives the shortest text that float()
\* reads back as the same float.  nan stands for the one object math.nan.
Digits == <<"0", "1", "2", "3", "4", "5", "6", "7", "8", "9">>
\* the first place of c in cs, 0 when it has none
IndexOf(cs, c) ==
    IF \E n \in 1..Len(cs) : cs[n] = c
    THEN CHOOSE n \in 1..Len(cs) : cs[n] = c /\ \A m \in 1..(n - 1) : cs[m] # c
    ELSE 0
\* int(text) for a text of digits
RECURSIVE NatOf(_)
NatOf(cs) ==
    IF cs = <<>> THEN 0
    ELSE 10 * NatOf(SubSeq(cs, 1, Len(cs) - 1)) + IndexOf(Digits, cs[Len(cs)]) - 1
\* An integer of any size is the sequence of its decimal digits, with zeros
\* in front.  ds // m for m = 2 and m = 5, a digit at a time: 10 being a
\* multiple of m, what the digits before leave over is what the last of them
\* leaves over
Div(ds, m) ==
    <<>> \o [n \in 1..Len(ds) |->
               ((IF n > 1 THEN ds[n - 1] % m ELSE 0) * 10 + ds[n]) \div m]
\* ds // 2 ** k for m = 2; ds * 2 ** k for m = 5, as ds * 10 // 5 k times, on
\* a ds that keeps a zero in front; 32 steps at a time
RECURSIVE Scale(_, _, _)
Scale(ds, m, k) ==
    IF k = 0 \/ ds = <<>> THEN ds
    ELSE IF k > 32 THEN Scale(Scale(ds, m, 32), m, k - 32)
    ELSE Scale(Div(IF m = 2 THEN ds ELSE Tail(ds) \o <<0>>, m), m, k - 1)
\* int.bit_length(), 32 bits at a time while more than 32 are left
RECURSIVE Bits(_)
Bits(q) ==
    IF \A n \in 1..Len(q) : q[n] = 0 THEN 0
    ELSE IF Scale(q, 2, 32) # <<>> \o [n \in 1..Len(q) |-> 0] THEN 32 + Bits(Scale(q, 2, 32))
    ELSE 1 + Bits(Div(q, 2))
\* int(float(text)) for the integer ds of k bits more than 53: the nearest
\* m * 2 ** k with m < 2 ** 53, ties to even m.  q is ds // 2 ** k, and q1 is
\* ds // 2 ** (k - 1), whose last bit is the first bit shifted out of q; the
\* bits after it are zero when q1 * 2 ** (k - 1) is ds.
Round(ds, k, q1, q) ==
    Scale(IF q1[Len(q1)] % 2 = 1 /\ (q[Len(q)] % 2 = 1 \/ Scale(q1, 5, k - 1) # ds)
          THEN <<>> \o [n \in 1..Len(q) |->
                          IF \A i \in (n + 1)..Len(q) : q[i] = 9
                          THEN (q[n] + 1) % 10 ELSE q[n]]
          ELSE q, 5, k)
Shifted(ds, k) == Round(ds, k, Scale(ds, 2, k - 1), Scale(ds, 2, k))
Nearest(ds) == Shifted(ds, Bits(ds) - 53)
\* str(n) for the digits ds of an integer n
RECURSIVE DigitsText(_)
DigitsText(ds) ==
    IF Len(ds) = 1 THEN Digits[ds[1] + 1]
    ELSE DigitsText(SubSeq(ds, 1, Len(ds) \div 2))
         \o DigitsText(SubSeq(ds, Len(ds) \div 2 + 1, Len(ds)))
\* ds without the zeros in front
Trim(ds) ==
    SubSeq(ds, CHOOSE n \in 1..Len(ds) : ds[n] # 0 /\ \A i \in 1..(n - 1) : ds[i] = 0, Len(ds))
\* The integer a float printed with a positive exponent is: the one float()
\* finds nearest to the digits mant followed by zeros, which need not have
\* these digits (1e+23 is 99999999999999991611392)
ExactInt(mant, zeros) ==
    DigitsText(Trim(Nearest(<<0>> \o [n \in 1..(Len(mant) + zeros) |->
                                        IF n <= Len(mant)
                                        THEN IndexOf(Digits, mant[n]) - 1 ELSE 0])))
\* The key of the number v of characters cs, with its point at dot and its e
\* at place e, 0 for none: a float that is an integer is that integer
NumberKey(v, cs, dot, e) ==
    IF e > 0
    THEN (IF cs[e + 1] = "-" THEN v
          ELSE ExactInt(SelectSeq(SubSeq(cs, 1, e - 1), LAMBDA c : c # "."),
                        NatOf(SubSeq(cs, e + 2, Len(cs)))
                        - (IF dot = 0 THEN 0 ELSE e - 1 - dot)))
    ELSE IF dot > 0 /\ SubSeq(cs, dot + 1, Len(cs)) = <<"0">>
    THEN SubSeq(v, 1, dot - 1)
    ELSE v
\* The key a value is as a dict key, equal for values that are == and hash
\* alike: True is 1, False is 0, -0.0 is 0
RECURSIVE Canon(_)
Canon(v) ==
    IF v = "True" THEN "1" ELSE IF v = "False" THEN "0"
    ELSE IF v = "-0.0" THEN "0"
    ELSE IF v # "" /\ Head(v) = "-" THEN "-" \o Canon(Tail(v))
    ELSE IF v = "" \/ IndexOf(Digits, Head(v)) = 0 THEN v
    ELSE NumberKey(v, Chars(v), IndexOf(Chars(v), "."), IndexOf(Chars(v), "e"))
\* d[k] = v on a dict of values: an equal key keeps its place and its
\* spelling; keys holds the keys of d and then k, each as Canon gives it
KPut(d, k, v) ==
    LET put(keys) ==
            IF \E n \in 1..Len(d) : keys[n] = keys[Len(d) + 1]
            THEN [n \in 1..Len(d) |->
                    IF keys[n] = keys[Len(d) + 1] THEN <<d[n][1], v>> ELSE d[n]]
            ELSE Append(d, <<k, v>>) IN
    put(<<>> \o [n \in 1..(Len(d) + 1) |-> Canon(IF n > Len(d) THEN k ELSE d[n][1])])

\* lines 353-366 and 386-399: the preserve flag handed to convert_from_nx and
\* whether it sets the attribute spec to None: [err, flag, drop]
Preserve(p, bound) ==
    IF p = "None" THEN [err |-> "", flag |-> FALSE, drop |-> FALSE]
    ELSE IF p = "True" THEN [err |-> "", flag |-> TRUE, drop |-> TRUE]
    ELSE IF ~IsString(p) THEN [err |-> "", flag |-> FALSE, drop |-> FALSE]
    ELSE IF ~DHas(bound, StrOf(p)) THEN [err |-> "KeyError", flag |-> FALSE, drop |-> FALSE]
    ELSE IF DGet(bound, StrOf(p)) = "True" THEN [err |-> "", flag |-> TRUE, drop |-> TRUE]
    ELSE [err |-> "", flag |-> FALSE, drop |-> FALSE]

\* The attribute spec handed to convert_from_nx: None, or a dict
NoneAttrs == [none |-> TRUE, d |-> <<>>]
DictAttrs(d) == [none |-> FALSE, d |-> d]

\* {bound.arguments[key]: bound.arguments.get(val, dflt) if isinstance(val, str)
\*  else val for key, val in attrs.items()}, from entry n on: [err, attrs]
RECURSIVE AttrsOfDict(_, _, _, _, _)
AttrsOfDict(map, n, bound, dflt, acc) ==
    IF n > Len(map) THEN [err |-> "", attrs |-> DictAttrs(acc)]
    ELSE IF ~DHas(bound, map[n][1]) THEN [err |-> "KeyError", attrs |-> NoneAttrs]
    ELSE IF IsList(DGet(bound, map[n][1])) THEN [err |-> "TypeError", attrs |-> NoneAttrs]
    ELSE LET val == IF map[n][3]
                    THEN (IF DHas(bound, map[n][2]) THEN DGet(bound, map[n][2]) ELSE dflt)
                    ELSE map[n][2] IN
         AttrsOfDict(map, n + 1, bound, dflt, KPut(acc, DGet(bound, map[n][1]), val))

\* spec[0] == "[", for a spec that is not the empty string
IsListForm(s) == s # "" /\ Head(s) = "["
\* spec[1:-1]
ListParam(s) == SubSeq(s, 2, Len(s) - 1)

\* `for x in value`: a string gives its characters, a list its elements, a
\* graph its nodes, and the graphs of the model hold none; None, a boolean and
\* a number are not iterable: [err, items]
Iterate(v) ==
    IF IsString(v)
    THEN [err |-> "", items |-> [n \in 1..Len(StrOf(v)) |-> "'" \o Chars(StrOf(v))[n] \o "'"]]
    ELSE IF IsList(v) THEN [err |-> "", items |-> Elements(SubSeq(v, 2, Len(v) - 1), 0, FALSE, "", <<>>)]
    ELSE IF v \in {"nx", "gs", "gd"} THEN [err |-> "", items |-> <<>>]
    ELSE [err |-> "TypeError", items |-> <<>>]

\* {x: dflt for x in items}: [err, attrs]
RECURSIVE AttrsOfList(_, _, _)
AttrsOfList(items, dflt, acc) ==
    IF items = <<>> THEN [err |-> "", attrs |-> DictAttrs(acc)]
    ELSE IF IsList(Head(items)) THEN [err |-> "TypeError", attrs |-> NoneAttrs]
    ELSE AttrsOfList(Tail(items), dflt, KPut(acc, Head(items), dflt))
\* {x: dflt for x in bound.arguments[name]}: [err, attrs]
ListAttrs(name, bound, dflt) ==
    IF ~DHas(bound, name) THEN [err |-> "KeyError", attrs |-> NoneAttrs]
    ELSE IF Iterate(DGet(bound, name)).err # ""
    THEN [err |-> Iterate(DGet(bound, name)).err, attrs |-> NoneAttrs]
    ELSE AttrsOfList(Iterate(DGet(bound, name)).items, dflt, <<>>)
\* {bound.arguments[name]: dflt}: [err, attrs]
NameAttrs(name, bound, dflt) ==
    IF ~DHas(bound, name) THEN [err |-> "KeyError", attrs |-> NoneAttrs]
    ELSE IF IsList(DGet(bound, name)) THEN [err |-> "TypeError", attrs |-> NoneAttrs]
    ELSE [err |-> "", attrs |-> DictAttrs(<< <<DGet(bound, name), dflt>> >>)]

\* lines 367-384: _edge_attrs, [err, attrs]
EdgeAttrs(spec, drop, bound) ==
    IF drop \/ spec.kind = "none" THEN [err |-> "", attrs |-> NoneAttrs]
    ELSE IF spec.kind = "str"
    THEN IF spec.arg = "" THEN [err |-> "IndexError", attrs |-> NoneAttrs]
         ELSE IF IsListForm(spec.arg) THEN ListAttrs(ListParam(spec.arg), bound, "1")
         ELSE NameAttrs(spec.arg, bound, "1")
    ELSE IF spec.kind = "dict"
    THEN AttrsOfDict(spec.map, 1, bound, "1", <<>>)
    ELSE [err |-> "RuntimeError", attrs |-> NoneAttrs]

\* lines 400-416: _node_attrs, [err, attrs].  The dict display of lines
\* 410-414 has no `for` clause: it reads the names key and val, which nothing
\* defines, and raises NameError.
NodeAttrs(spec, drop, bound) ==
    IF drop \/ spec.kind = "none" THEN [err |-> "", attrs |-> NoneAttrs]
    ELSE IF spec.kind = "str"
    THEN IF spec.arg = "" THEN [err |-> "IndexError", attrs |-> NoneAttrs]
         ELSE IF IsListForm(spec.arg) THEN ListAttrs(ListParam(spec.arg), bound, "None")
         ELSE NameAttrs(spec.arg, bound, "None")
    ELSE IF spec.kind = "dict"
    THEN [err |-> "NameError", attrs |-> NoneAttrs]
    ELSE [err |-> "RuntimeError", attrs |-> NoneAttrs]

EvConvert(p, name, g, conv) ==
    EvCall("convert_from_nx", p, name, <<g>>, conv)

\* lines 418-426: for gname in graphs: bound.arguments[gname] =
\* backend.convert_from_nx(...), from entry n on: [bound, events]
RECURSIVE ConvertGraphs(_, _, _, _, _, _, _)
ConvertGraphs(g, n, p, name, conv, bound, evs) ==
    IF n > Len(g) THEN [bound |-> bound, events |-> evs]
    ELSE LET gname == g[n][1]
             val == DGet(bound, gname) IN
         ConvertGraphs(g, n + 1, p, name, conv,
                       DPut(bound, gname, convert_from_nx(p, val)),
                       Append(evs, EvConvert(p, name, val, conv)))

\* backend.convert_to_nx(result, name=name)
convert_to_nx(res) == [res EXCEPT !.to_nx = TRUE]

\* getattr(backend, name).__call__(**bound.arguments): every argument by keyword
KwdsOf(bound) == [k \in DKeySet(bound) |-> DGet(bound, k)]

\* The soft failure for every backend
AlwaysXFail(plugin_name) == Raise("XFailed", "not implemented", {plugin_name})

\* lines 341-345: the hard failure is kept for the loopback backend only
XFailOrRaise(plugin_name) ==
    IF plugin_name = "nx-loopback"
    THEN Raise("NetworkXNotImplemented", "not found", {plugin_name})
    ELSE Raise("XFailed", "not implemented", {plugin_name})

\* The graph names that are no bound argument
InvalidNames(decl, bound) ==
    LET g == GraphsOf(decl) IN {g[n][1] : n \in 1..Len(g)} \ DKeySet(bound)

\* The arguments bound, and the graph names checked, before the backend is asked
BindThenBackend(name, decl, args, kwds, plugin_name) ==
    LET b == Bind(Signature(decl.func), args, kwds) IN
    IF ~b.ok THEN Raise("TypeError", "bind", {})
    ELSE IF InvalidNames(decl, b.bound) # {}
    THEN Raise("KeyError", "Invalid graph names", InvalidNames(decl, b.bound))
    ELSE IF name \notin Implements(plugin_name) THEN XFailOrRaise(plugin_name)
    ELSE NoResult

\* The invalid graph names reported as arguments that do not bind
NamesAsBindError(name, decl, args, kwds, plugin_name) ==
    LET b == Bind(Signature(decl.func), args, kwds) IN
    IF name \notin Implements(plugin_name) THEN XFailOrRaise(plugin_name)
    ELSE IF ~b.ok \/ InvalidNames(decl, b.bound) # {} THEN Raise("TypeError", "bind", {})
    ELSE NoResult

\* lines 339-350, after the load: hasattr(backend, name), then sig.bind, then
\* the graph names; the first failure, or NoResult
BackendThenBind(name, decl, args, kwds, plugin_name) ==
    LET b == Bind(Signature(decl.func), args, kwds) IN
    IF name \notin Implements(plugin_name) THEN XFailOrRaise(plugin_name)
    ELSE IF ~b.ok THEN Raise("TypeError", "bind", {})
    ELSE IF InvalidNames(decl, b.bound) # {}
    THEN Raise("KeyError", "Invalid graph names", InvalidNames(decl, b.bound))
    ELSE NoResult

\* Lines 353-428 of the wrapper, on arguments that bind: the preserve flags
\* pe and pn and the attribute specs ea and na as lines 353-416 compute them,
\* the first exception of these, else one convert_from_nx per graph, the
\* backend's function and convert_to_nx: [result, events, items]
WrapperConvert(name, decl, plugin_name, loaded, bound, pe, ea, pn, na) ==
    LET fail(res) == [result |-> res, events |-> loaded, items |-> TRUE]
        called(c) ==
            [result |-> convert_to_nx([NoResult EXCEPT !.kind = "return",
                                                       !.impl = plugin_name,
                                                       !.value = c.bound]),
             events |-> loaded \o c.events
                        \o <<EvCall("backend", plugin_name, name, <<>>, KwdsOf(c.bound)),
                             EvCall("convert_to_nx", plugin_name, name, <<>>, <<>>)>>,
             items |-> TRUE] IN
    IF pe.err # "" THEN fail(Raise(pe.err, "edge_attrs", {}))
    ELSE IF ea.err # "" THEN fail(Raise(ea.err, "edge_attrs", {}))
    ELSE IF pn.err # "" THEN fail(Raise(pn.err, "node_attrs", {}))
    ELSE IF na.err # "" THEN fail(Raise(na.err, "node_attrs", {}))
    ELSE called(ConvertGraphs(GraphsOf(decl), 1, plugin_name, name,
                              [edge_attrs |-> ea.attrs, node_attrs |-> na.attrs,
                               preserve_edge_attrs |-> pe.flag,
                               preserve_node_attrs |-> pn.flag],
                              bound, <<>>))

\* test_override_dispatch's wrapper(*args, **kwds), lines 338-428, for the
\* function of decl registered as name: [result, events, items]
test_override_wrapper(name, decl, args, kwds, plugin_name, items) ==
    LET loaded == ItemsRead(items) \o <<Ev("load", plugin_name)>>
        first == BackendThenBind(name, decl, args, kwds, plugin_name)
        b == Bind(Signature(decl.func), args, kwds)
        pe == Preserve(decl.preserve_edge_attrs, b.bound)
        pn == Preserve(decl.preserve_node_attrs, b.bound)
    IN
    IF first # NoResult THEN [result |-> first, events |-> loaded, items |-> TRUE]
    ELSE WrapperConvert(name, decl, plugin_name, loaded, b.bound,
                        pe, EdgeAttrs(decl.edge_attrs, pe.drop, b.bound),
                        pn, NodeAttrs(decl.node_attrs, pn.drop, b.bound))

(***************************************************************************)
(* Registration and dispatch as a state machine                            *)
(***************************************************************************)
Idle == [op |-> "idle", name |-> "", decl |-> 0, args |-> <<>>, kwds |-> <<>>,
         items |-> FALSE, pre |-> <<>>]

\* Registration that replaces an existing entry
_register_algo_overwrite(reg, name, id) ==
    [err |-> "", reg |-> DPut(reg, name, id), dispatchname |-> name]

\* _register_algo(name, wrapped_func) on the registry reg, the wrapper being id:
\* [err, reg, dispatchname]
_register_algo(reg, name, id) ==
    IF DHas(reg, name)
    THEN [err |-> "already exists", reg |-> reg, dispatchname |-> ""]
    ELSE [err |-> "", reg |-> DPut(reg, name, id), dispatchname |-> name]

\* The environments explored: the loopback backend, which tags no graph of
\* GraphVals, is installed only where NETWORKX_GRAPH_CONVERT names it
Environments ==
    {e \in (SUBSET Plugins) \X ({NoPlugin} \cup Plugins) :
        "nx-loopback" \in e[1] => e[2] = "nx-loopback"}

\* The process starts: the environment holds some plugin entry points; with
\* NETWORKX_GRAPH_CONVERT set, importing backends.py reads them (`not plugins`)
\* and requires the named plugin among them.
DispInit ==
    /\ installed \in SUBSET Plugins
    /\ forced \in {NoPlugin} \cup installed
    /\ <<installed, forced>> \in Environments
    /\ _items = (forced # NoPlugin)
    /\ imported = {}
    /\ _registered_algorithms = <<>>
    /\ wrappers = <<>>
    /\ call = Idle
    /\ events = <<>>
    /\ result = NoResult

\* @_dispatch(...) applied to the function of Decls[k]; with
\* NETWORKX_GRAPH_CONVERT set _dispatch is test_override_dispatch, whose
\* registration steps are the same
Register(k) ==
    LET decl == Decls[k]
        name == IF decl.name = "" THEN decl.func ELSE decl.name
        id == Len(wrappers) + 1
        r == _register_algo(_registered_algorithms, name, id) IN
    /\ call.op = "idle"
    /\ Len(wrappers) < MaxRegs
    /\ call' = [Idle EXCEPT !.op = "register", !.name = name, !.decl = k,
                            !.items = _items, !.pre = _registered_algorithms]
    /\ events' = <<>>
    /\ IF graphs_error(decl) # ""
       THEN /\ result' = Raise(graphs_error(decl), "graphs", {})
            /\ UNCHANGED <<_registered_algorithms, wrappers>>
       ELSE /\ wrappers' = Append(wrappers, [decl |-> k, harness |-> forced # NoPlugin,
                                             dispatchname |-> r.dispatchname])
            /\ _registered_algorithms' = r.reg
            /\ result' = IF r.err # "" THEN Raise("KeyError", r.err, {name})
                         ELSE [NoResult EXCEPT !.kind = "return", !.value = <<id>>]
    /\ UNCHANGED <<forced, installed, _items, imported>>
    /\ UNCHANGED cfgVars

\* The plugins whose entry point a call loaded: plugins[plugin_name].load()
Loads(evs) == {evs[n].who : n \in {m \in 1..Len(evs) : evs[m].ev = "load"}}

\* A call of the registered algorithm `name` in normal dispatch
Dispatch(name, args, kwds) ==
    /\ call.op = "idle"
    /\ forced = NoPlugin
    /\ DHas(_registered_algorithms, name)
    /\ LET w == wrappers[DGet(_registered_algorithms, name)]
           r == wrapper(name, Decls[w.decl], args, kwds, installed, _items) IN
       /\ call' = [Idle EXCEPT !.op = "call", !.name = name, !.decl = w.decl,
                               !.args = args, !.kwds = kwds, !.items = _items,
                               !.pre = _registered_algorithms]
       /\ events' = r.events
       /\ result' = r.result
       /\ _items' = r.items
       /\ imported' = imported \cup Loads(r.events)
    /\ UNCHANGED <<forced, installed, _registered_algorithms, wrappers>>
    /\ UNCHANGED cfgVars

\* A call of the registered algorithm `name` when NETWORKX_GRAPH_CONVERT is set
HarnessCall(name, args, kwds) ==
    /\ call.op = "idle"
    /\ forced # NoPlugin
    /\ DHas(_registered_algorithms, name)
    /\ LET w == wrappers[DGet(_registered_algorithms, name)]
           returns(r) ==
               /\ events' = r.events
               /\ result' = r.result
               /\ _items' = r.items
               /\ imported' = imported \cup Loads(r.events) IN
       /\ call' = [Idle EXCEPT !.op = "hcall", !.name = name, !.decl = w.decl,
                               !.args = args, !.kwds = kwds, !.items = _items,
                               !.pre = _registered_algorithms]
       /\ returns(test_override_wrapper(name, Decls[w.decl], args, kwds, forced, _items))
    /\ UNCHANGED <<forced, installed, _registered_algorithms, wrappers>>
    /\ UNCHANGED cfgVars

\* hasattr(backend, "on_start_tests"): the loopback backend has the hook
HasOnStartTests(p) == p = "nx-loopback"

\* The collected tests pytest hands to _mark_tests
TestItems == {<<>>, <<"test_a", "test_b">>}

\* _mark_tests(items), lines 459-465: nothing unless NETWORKX_GRAPH_CONVERT is
\* set; then the named backend is loaded and, when it has on_start_tests, that
\* hook is called with the items.  It returns None.
_mark_tests(items) ==
    LET hook == IF HasOnStartTests(forced)
                THEN <<EvCall("on_start_tests", forced, "", items, <<>>)>> ELSE <<>>
        evs == IF forced = NoPlugin THEN <<>>
               ELSE ItemsRead(_items) \o <<Ev("load", forced)>> \o hook IN
    /\ call.op = "idle"
    /\ call' = [Idle EXCEPT !.op = "mark", !.args = items, !.items = _items,
                            !.pre = _registered_algorithms]
    /\ events' = evs
    /\ result' = [NoResult EXCEPT !.kind = "return"]
    /\ _items' = (_items \/ forced # NoPlugin)
    /\ imported' = imported \cup Loads(evs)
    /\ UNCHANGED <<forced, installed, _registered_algorithms, wrappers>>
    /\ UNCHANGED cfgVars

\* The caller has the result (or the exception) of the call in hand
Done ==
    /\ call.op # "idle"
    /\ call' = Idle
    /\ events' = <<>>
    /\ result' = NoResult
    /\ UNCHANGED <<forced, installed, _items, imported, _registered_algorithms, wrappers>>
    /\ UNCHANGED cfgVars

\* The arguments of one call: at most MaxArgs in all
CallInputs ==
    {c \in ArgSeqs \X KwMaps : Len(c[1]) + Cardinality(DOMAIN c[2]) <= MaxArgs}

(***************************************************************************)
(* Specifications                                                          *)
(***************************************************************************)
\* The configuration store alone: no plugin installed, nothing registered
Init == CfgInit /\ DispInit /\ installed = {}

Next ==
    \/ \E i \in created, k \in CfgKeys(cfgType) :
          \E v \in CfgVals(cfgType, k) : SetAttr(i, k, v)
    \/ \E i \in created, k \in CfgKeys(cfgType) :
          \E v \in CfgVals(cfgType, k) : SetItem(i, k, v)
    \/ \E i \in created, k \in CfgKeys(cfgType) : DelAttr(i, k)
    \/ \E i \in created, k \in CfgKeys(cfgType) : DelItem(i, k)
    \/ \E i \in created, kw \in Kwargs(cfgType) : Call(i, kw)
    \/ \E i \in created : Enter(i)
    \/ \E i \in created, exc \in BOOLEAN : Exit(i, exc)

Spec == Init /\ [][Next]_vars

\* Single operations on a config outside any with-block: writes, deletions,
\* reads, override calls of one or two keywords, and the pickle round trip
Overrides(t) ==
    Kwargs(t) \cup
    {<< <<"eggs", v>>, <<k, w>> >> : v \in CfgVals(t, "eggs"), k \in CfgKeys(t) \ {"eggs"},
                                       w \in {1, BadVal} \cap CfgVals(t, "name")}

\* The names read: the keys written, and names of the class: a class variable
\* an override call changes, one it does not, a method, and the instance dict
\* a flexible config alone has
ReadKeys(t) == CfgKeys(t) \cup {"_prev", "_strict", "items", "__dict__"}

StoreNext ==
    \/ \E i \in created, k \in CfgKeys(cfgType) :
          \E v \in CfgVals(cfgType, k) : SetAttr(i, k, v)
    \/ \E i \in created, k \in CfgKeys(cfgType) :
          \E v \in CfgVals(cfgType, k) : SetItem(i, k, v)
    \/ \E i \in created, k \in CfgKeys(cfgType) : DelAttr(i, k)
    \/ \E i \in created, k \in CfgKeys(cfgType) : DelItem(i, k)
    \/ \E i \in created, kw \in Overrides(cfgType) : Call(i, kw)
    \/ \E i \in created, k \in ReadKeys(cfgType) : GetAttr(i, k)
    \/ \E i \in created, k \in ReadKeys(cfgType) : GetItem(i, k)
    \/ \E i \in created, k \in ReadKeys(cfgType) : Get(i, k)
    \/ \E i \in created : Reconstruct(i)

StoreSpec == Init /\ [][StoreNext]_vars

\* Two instances of one defining type: the second is created at any point of
\* the program, inside or outside a with-block; override calls take no keyword
\* and the direct writes and deletions are of the field "eggs"
NewKwargs(t) ==
    {[n \in 1..Len(Fields(t)) |-> <<Fields(t)[n], f[n]>>] :
        f \in [1..Len(Fields(t)) -> GoodVals]}

InstancesNext ==
    \/ \E j \in Insts, kw \in NewKwargs(cfgType) : New(j, kw)
    \/ \E i \in created, v \in GoodVals : SetAttr(i, "eggs", v)
    \/ \E i \in created : DelAttr(i, "eggs")
    \/ \E i \in created : Call(i, <<>>)
    \/ \E i \in created : Enter(i)
    \/ \E i \in created, exc \in BOOLEAN : Exit(i, exc)

InstancesSpec == Init /\ [][InstancesNext]_vars

\* Registration and dispatch alone: one config that nothing touches
DispatchInit ==
    /\ DispInit
    /\ CfgInit
    /\ cfgType = "MyConfig"
    /\ store["A"] = << <<"eggs", 1>>, <<"spam", 1>> >>

DispatchNext ==
    \/ \E k \in DispatchDecls : Register(k)
    \/ /\ call.op = "idle"
       /\ forced = NoPlugin
       /\ \E n \in 1..Len(_registered_algorithms), c \in CallInputs :
             Dispatch(_registered_algorithms[n][1], c[1], c[2])
    \/ /\ call.op = "idle"
       /\ forced # NoPlugin
       /\ \E n \in 1..Len(_registered_algorithms), c \in CallInputs :
             HarnessCall(_registered_algorithms[n][1], c[1], c[2])
    \/ \E items \in TestItems : _mark_tests(items)
    \/ Done

DispatchSpec == DispatchInit /\ [][DispatchNext]_vars

\* A replay under NETWORKX_GRAPH_CONVERT of functions that take attribute
\* arguments: a graph, True, the attribute name 'w' or the string 'wv', by
\* position or keyword; the first positional argument is a graph, plain or
\* tagged
HarnessVals == {"nx", "True", "'w'", "'wv'"}
HarnessArgs ==
    {a \in UNION {[1..n -> HarnessVals \cup {"gs"}] : n \in 0..MaxArgs} :
        /\ a # <<>> => a[1] \in {"nx", "gs"}
        /\ \A n \in 2..Len(a) : a[n] \in HarnessVals}
HarnessKwds == UNION {[D -> HarnessVals] : D \in SUBSET {"weight", "keep"}}
HarnessInputs ==
    {c \in HarnessArgs \X HarnessKwds : Len(c[1]) + Cardinality(DOMAIN c[2]) <= MaxArgs}

HarnessInit ==
    /\ DispatchInit
    /\ forced # NoPlugin
    /\ installed = {forced}

HarnessNext ==
    \/ \E k \in HarnessDecls : Register(k)
    \/ /\ call.op = "idle"
       /\ \E n \in 1..Len(_registered_algorithms), c \in HarnessInputs :
             HarnessCall(_registered_algorithms[n][1], c[1], c[2])
    \/ \E items \in TestItems : _mark_tests(items)
    \/ Done

HarnessSpec == HarnessInit /\ [][HarnessNext]_vars


(***************************************************************************)
(* Properties of the configuration store (checked under Spec)              *)
(***************************************************************************)
\* A step that leaves the innermost with-block
ExitStep == scopes # <<>> /\ scopes' = SubSeq(scopes, 1, Len(scopes) - 1)
Innermost == scopes[Len(scopes)]
SamePairs(d, snapshot) == DItems(d) = DItems(snapshot)

\* C1: for a declared key k and a valid value v2, the override call cfg(k=v2)
\* can be made and its scope entered (the config then holds v2 under k), and
\* leaving that scope, normally or by an exception, which still propagates,
\* leaves export(cfg) equal to the export taken before the override call;
\* nested scopes are undone innermost first.
C1_OverrideMade ==
    (/\ op.name = "call"
     /\ Len(op.kw) = 1
     /\ DHas(store[op.inst], op.kw[1][1])
     /\ op.kw[1][2] \in GoodVals)
    => /\ outcome = "ok"
       /\ DGet(store[op.inst], op.kw[1][1]) = op.kw[1][2]
C1_OverrideUndone ==
    (ExitStep /\ Innermost.override /\ Innermost.kw # <<>>)
    => /\ SamePairs(store'[Innermost.inst], Innermost.pre)
       /\ outcome' = (IF op'.exc THEN "propagates" ELSE "ok")
C1_ScopedOverride == []C1_OverrideMade /\ [][C1_OverrideUndone]_vars

\* C2: whatever is written, added or deleted while scopes are active, leaving
\* a scope that an override call opened puts the config back to exactly the
\* keys and values it had before that call: added keys are gone, deleted keys
\* are back.
C2_ExitRestoresExactly ==
    [][(ExitStep /\ Innermost.override)
       => SamePairs(store'[Innermost.inst], Innermost.pre)]_vars

\* What does hold at such an exit: every key of the pre-scope state is present
\* with its pre-scope value (a strict config therefore is restored exactly)
ExitRestoresSnapshotKeys ==
    [][(ExitStep /\ Innermost.override)
       => /\ DItems(Innermost.pre) \subseteq DItems(store'[Innermost.inst])
          /\ _strict(cfgType) => SamePairs(store'[Innermost.inst], Innermost.pre)]_vars

(***************************************************************************)
(* Properties of normal dispatch (checked under DispatchSpec).  The        *)
(* expectations are stated from the call's inputs: the registered graph    *)
(* spec, the positional arguments and the keywords.                        *)
(***************************************************************************)
Called == call.op = "call"
CDecl == Decls[call.decl]
CGraphs == GraphsOf(CDecl)
Entries == 1..Len(CGraphs)
Positional(n) == CGraphs[n][3] < Len(call.args)
Keyword(n) == CGraphs[n][1] \in DOMAIN call.kwds
Required(n) == ~CGraphs[n][2]
Supplied(n) ==
    IF Positional(n) THEN call.args[CGraphs[n][3] + 1]
    ELSE IF Keyword(n) THEN call.kwds[CGraphs[n][1]] ELSE "None"
Offence(n) ==
    IF Positional(n) /\ Keyword(n) THEN "multiple values"
    ELSE IF ~Positional(n) /\ ~Keyword(n)
         THEN (IF Required(n) THEN "missing" ELSE "")
         ELSE IF Supplied(n) = "None" /\ Required(n) THEN "is None" ELSE ""
Offending == {n \in Entries : Offence(n) # ""}
ResolutionOk == Offending = {}
\* the resolved graph set, and the non-native tags in it
ResolvedPairs == {<<CGraphs[n][1], Supplied(n)>> : n \in {m \in Entries : Supplied(m) # "None"}}
ResolvedVals == {pr[2] : pr \in ResolvedPairs}
Tags == {getattr_plugin(g) : g \in {v \in ResolvedVals : hasattr_plugin(v)}}
Untagged == {v \in ResolvedVals : ~hasattr_plugin(v)}
\* what the call invoked and loaded
Invoked(e) == {n \in 1..Len(events) : events[n].ev = e}
NativeEvent == EvCall("native", "networkx", CDecl.func, call.args, call.kwds)
BackendEvent(pl) == EvCall("backend", pl, call.name, call.args, call.kwds)
NothingDone == events = <<>> /\ _items = call.items

\* C3: two resolved graphs with different non-native tags: the call fails with
\* the mismatch TypeError naming both tags; nothing is invoked, looked up or
\* loaded.
C3_Mismatch ==
    (Called /\ ResolutionOk /\ Cardinality(Tags) >= 2)
    => /\ result.kind = "raise"
       /\ result.exc = "TypeError"
       /\ result.msg = "same plugin"
       /\ Tags \subseteq result.tags
       /\ NothingDone
C3_Witness ==
    /\ Called /\ ResolutionOk /\ Tags = {"sparse", "demo"}
    /\ result.exc = "TypeError"
    /\ installed = {"sparse", "demo"}

\* C4: untagged graphs mixed with graphs of one single non-native tag are not
\* a mismatch: that backend is selected, and when it is not installed the call
\* fails with ImportError.
C4_MixedSelectsBackend ==
    (Called /\ ResolutionOk /\ Cardinality(Tags) = 1 /\ Untagged # {})
    => /\ result.msg # "same plugin"
       /\ \A pl \in Tags :
             /\ pl \notin installed => result.exc = "ImportError"
             /\ Invoked("native") = {}

\* C5: all resolved graphs untagged: the native function is executed with the
\* original args and kwds and the call ends as that execution ends; no backend
\* is looked up or loaded and nothing else is called.
C5_NativeOnly ==
    (Called /\ ResolutionOk /\ Tags = {})
    => /\ events = <<NativeEvent>>
       /\ result = Invoke("networkx", CDecl.func, call.args, call.kwds)
       /\ _items = call.items
C5_Witness ==
    /\ Called /\ ResolutionOk /\ Tags = {} /\ ResolvedVals = {"nx"}
    /\ result.kind = "return"
    /\ installed # {}

\* C6: all tagged resolved graphs carry the tag of an installed backend that
\* has the algorithm: the backend method is invoked with the original args
\* and kwds, its result is returned as is, the native function is not invoked.
C6_BackendInvoked ==
    (Called /\ ResolutionOk /\ Cardinality(Tags) = 1)
    => \A pl \in Tags :
          (pl \in installed /\ call.name \in Implements(pl))
          => /\ Invoked("backend") # {}
             /\ events[Len(events)] = BackendEvent(pl)
             /\ result = Invoke(pl, CDecl.func, call.args, call.kwds)
             /\ Invoked("native") = {}

\* C7: with graph spec {"G": 0}, passing the graph positionally gives the same
\* resolved graphs, the same implementation and the same result or error as
\* passing it as G=...
Implementation(evs) ==
    {<<evs[n].ev, evs[n].who>> : n \in {m \in 1..Len(evs) : evs[m].ev \in {"native", "backend"}}}
C7_KwdsVsArgs ==
    (/\ Called
     /\ CGraphs = << <<"G", FALSE, 0>> >>
     /\ Len(call.args) = 1
     /\ "G" \notin DOMAIN call.kwds)
    => LET kw == ("G" :> call.args[1]) @@ call.kwds
           pos == graphs_resolved(CDecl, call.args, call.kwds)
           key == graphs_resolved(CDecl, <<>>, kw)
           alt == wrapper(call.name, CDecl, <<>>, kw, installed, call.items) IN
       /\ pos.resolved = key.resolved /\ pos.err = key.err
       /\ alt.result = result
       /\ Implementation(alt.events) = Implementation(events)
       /\ alt.items = _items
C7_Witness ==
    /\ Called /\ CGraphs = << <<"G", FALSE, 0>> >>
    /\ call.args = <<"gs">> /\ call.kwds = <<>>
    /\ result.kind = "return" /\ result.impl = "sparse"

\* C8: a required entry absent from args and kwds fails with "missing required
\* graph argument", an entry given both ways with "got multiple values", a
\* required entry that is None with "is None": a TypeError for the first
\* offending entry of the graph spec, raised before any tag is looked at, with
\* nothing invoked and no backend looked up or loaded; no other call ends in
\* one of these errors.
ResolutionErrors == {"missing", "multiple values", "is None"}
C8_ResolutionErrors ==
    Called
    => IF Offending # {}
       THEN LET first == CHOOSE n \in Offending : \A m \in Offending : n <= m IN
            /\ result = Raise("TypeError", Offence(first), {CGraphs[first][1]})
            /\ NothingDone
       ELSE result.msg \notin ResolutionErrors
C8_Witness ==
    /\ Called /\ result.msg = "multiple values" /\ result.tags = {"H"}
    /\ hasattr_plugin(call.args[1])
    /\ getattr_plugin(call.args[1]) # getattr_plugin(call.args[2])
    /\ hasattr_plugin(call.args[2])

\* C9: for the optional second graph H of {"G": 0, "H?": 1}: omitted or None,
\* resolution succeeds and H is not in the resolved set, so the call is routed
\* by G alone; with a graph value H is in the resolved set, and its tag takes
\* part: the native function is not run for a tagged H, and a tag different
\* from G's is a mismatch naming it.
HEntry == CHOOSE n \in Entries : CGraphs[n][1] = "H"
GEntry == CHOOSE n \in Entries : CGraphs[n][1] = "G"
C9_Optional ==
    (Called /\ CGraphs = << <<"G", FALSE, 0>>, <<"H", TRUE, 1>> >> /\ ResolutionOk)
    => LET r == graphs_resolved(CDecl, call.args, call.kwds)
           g == Supplied(GEntry)
           h == Supplied(HEntry) IN
       /\ r.err = ""
       /\ result.msg \notin ResolutionErrors
       /\ DItems(r.resolved) = ResolvedPairs
       /\ h = "None"
          => /\ ~DHas(r.resolved, "H")
             /\ result.msg # "same plugin"
             /\ hasattr_plugin(g) <=> Invoked("native") = {}
             /\ hasattr_plugin(g) => result.tags = {getattr_plugin(g)} \/ result.impl = getattr_plugin(g)
       /\ h # "None"
          => /\ DHas(r.resolved, "H") /\ DGet(r.resolved, "H") = h
             /\ hasattr_plugin(h)
                => /\ Invoked("native") = {}
                   /\ (hasattr_plugin(g) /\ getattr_plugin(g) # getattr_plugin(h))
                      => /\ result.msg = "same plugin"
                         /\ getattr_plugin(h) \in result.tags
C9_Witness ==
    /\ Called /\ CGraphs = << <<"G", FALSE, 0>>, <<"H", TRUE, 1>> >>
    /\ call.args = <<"gs">> /\ call.kwds = ("H" :> "None")
    /\ result.kind = "return" /\ result.impl = "sparse"

\* C10: registering under a name already in the registry fails with the
\* duplicate KeyError and the entry keeps its wrapper; under a fresh name it
\* stores the new wrapper and attaches the name to it; in normal and in
\* harness mode, for explicit and for defaulted names.  (A decoration with an
\* empty graph spec is rejected before it registers anything.)
ExpectedName(decl) == IF decl.name # "" THEN decl.name ELSE decl.func
C10_Register ==
    call.op = "register"
    => LET decl == Decls[call.decl]
           name == ExpectedName(decl)
           id == Len(wrappers) IN
       /\ call.name = name
       /\ IF ~decl.isStr /\ decl.graphs = <<>>
          THEN /\ result = Raise("KeyError", "graphs", {})
               /\ _registered_algorithms = call.pre
          ELSE IF DHas(call.pre, name)
          THEN /\ result = Raise("KeyError", "already exists", {name})
               /\ _registered_algorithms = call.pre
               /\ wrappers[id].dispatchname = ""
          ELSE /\ result.kind = "return" /\ result.value = <<id>>
               /\ _registered_algorithms = Append(call.pre, <<name, id>>)
               /\ \A n \in 1..Len(call.pre) : call.pre[n][2] # id
               /\ wrappers[id].dispatchname = name
               /\ wrappers[id].decl = call.decl
C10_Witness ==
    /\ call.op = "register"
    /\ result.msg = "already exists"
    /\ forced # NoPlugin
    /\ Decls[call.decl].name # ""
    /\ Len(_registered_algorithms) = 1


\* C11: the registry is append-only: whatever a step does (a registration that
\* succeeds, one rejected as a duplicate or for an empty graph spec, a dispatch
\* call that returns or raises), every registered name is still registered and
\* still maps to the same wrapper, which is itself unchanged; a step that is
\* not a registration leaves the registry exactly as it was.
C11_Kept ==
    /\ \A n \in 1..Len(_registered_algorithms) :
          LET name == _registered_algorithms[n][1] IN
          /\ DHas(_registered_algorithms', name)
          /\ DGet(_registered_algorithms', name) = _registered_algorithms[n][2]
    /\ \A id \in 1..Len(wrappers) :
          id <= Len(wrappers') /\ wrappers'[id] = wrappers[id]
    /\ call'.op # "register" => _registered_algorithms' = _registered_algorithms
C11_AppendOnly == [][C11_Kept]_vars
C11_Witness ==
    /\ call.op = "call" /\ result.kind = "raise"
    /\ Len(wrappers) = 2
    /\ _registered_algorithms = << <<"foo", 1>> >>
    /\ wrappers[1].dispatchname = "foo" /\ wrappers[2].dispatchname = ""


\* C12: the backend selected by the graph tag (the single non-native tag among
\* the resolved graphs) is not in the plugin registry: the call fails with
\* ImportError naming that backend; the native function is not run as a
\* fallback and no backend method is invoked.
Unavailable(pl) ==
    /\ result = Raise("ImportError", "unable to load", {pl})
    /\ Invoked("native") = {} /\ Invoked("backend") = {} /\ Invoked("load") = {}
C12_Unavailable ==
    (Called /\ ResolutionOk /\ Cardinality(Tags) = 1)
    => \A pl \in Tags : pl \notin installed => Unavailable(pl)

\* What does hold: the same, when every resolved graph carries that tag
UnavailableWhenAllTagged ==
    (Called /\ ResolutionOk /\ Cardinality(Tags) = 1 /\ Untagged = {})
    => \A pl \in Tags : pl \notin installed => Unavailable(pl)


\* C13: the target backend is loaded but has no method under the algorithm's
\* name.  Normal dispatch: the call fails with NetworkXNotImplemented and the
\* native function is not run.  Harness mode: the call fails with
\* NetworkXNotImplemented when the forced backend is nx-loopback and ends in
\* pytest's xfail otherwise.  In each case the backend was loaded and no
\* convert_from_nx, backend method or convert_to_nx call is made.
HarnessCalled == call.op = "hcall"
OnlyLoaded(pl) ==
    /\ Invoked("load") # {} /\ events[Len(events)] = Ev("load", pl)
    /\ Invoked("native") = {} /\ Invoked("backend") = {}
    /\ Invoked("convert_from_nx") = {} /\ Invoked("convert_to_nx") = {}
C13_NotImplemented ==
    /\ (Called /\ ResolutionOk /\ Cardinality(Tags) = 1 /\ Untagged = {})
       => \A pl \in Tags :
             (pl \in installed /\ call.name \notin Implements(pl))
             => /\ result = Raise("NetworkXNotImplemented", "not implemented", {pl})
                /\ OnlyLoaded(pl)
    /\ (HarnessCalled /\ call.name \notin Implements(forced))
       => /\ result.kind = "raise"
          /\ result.exc = (IF forced = "nx-loopback"
                           THEN "NetworkXNotImplemented" ELSE "XFailed")
          /\ result.tags = {forced}
          /\ OnlyLoaded(forced)
C13_Witness ==
    /\ HarnessCalled /\ forced = "nx-loopback" /\ call.name = "foo"
    /\ result.exc = "NetworkXNotImplemented"
    /\ call.args = <<"nx">>

\* C14 on the decorations that take no attribute argument: the events of a
\* harness call that binds are the load, one convert_from_nx per graph-spec
\* entry with no attribute spec and the preserve flags of the decoration, the
\* backend method, convert_to_nx; whatever tags the graph arguments carry.
PlainAttrs(decl) ==
    /\ decl.edge_attrs = AttrNone /\ decl.node_attrs = AttrNone
    /\ decl.preserve_edge_attrs \in {"None", "True", "False"}
    /\ decl.preserve_node_attrs \in {"None", "True", "False"}
ExpectedConv(decl) ==
    [edge_attrs |-> NoneAttrs, node_attrs |-> NoneAttrs,
     preserve_edge_attrs |-> decl.preserve_edge_attrs = "True",
     preserve_node_attrs |-> decl.preserve_node_attrs = "True"]
Binds == Bind(Signature(CDecl.func), call.args, call.kwds).ok
ExpectedKwds ==
    [k \in {CGraphs[n][1] : n \in Entries} |->
        convert_from_nx(forced, Supplied(CHOOSE n \in Entries : CGraphs[n][1] = k))]
HarnessOrderPlain ==
    (HarnessCalled /\ call.name \in Implements(forced) /\ Binds /\ PlainAttrs(CDecl))
    => /\ events = <<Ev("load", forced)>>
                   \o [n \in Entries |->
                         EvCall("convert_from_nx", forced, call.name,
                                <<Supplied(n)>>, ExpectedConv(CDecl))]
                   \o <<EvCall("backend", forced, call.name, <<>>, ExpectedKwds),
                        EvCall("convert_to_nx", forced, call.name, <<>>, <<>>)>>
       /\ result.kind = "return" /\ result.to_nx /\ result.impl = forced
       /\ KwdsOf(result.value) = ExpectedKwds
PlainOrderSeen ==
    /\ HarnessCalled /\ forced = "demo" /\ call.name = "foo"
    /\ call.args = <<"nx">> /\ call.kwds = <<>>
    /\ result.kind = "return" /\ result.to_nx
    /\ Len(events) = 4


(***************************************************************************)
(* Properties of single operations on a config (checked under StoreSpec)   *)
(***************************************************************************)
Declared(k) == k \in {Fields(cfgType)[n] : n \in 1..Len(Fields(cfgType))}
WriteKeys == CfgKeys(cfgType)
WriteVals(k) == CfgVals(cfgType, k)
Strict == _strict(cfgType)
\* every key but k is where it was, with its value
OthersKept(i, k) ==
    /\ DDel(store'[i], k) = DDel(store[i], k)
    /\ \A j \in Insts \ {i} : store'[j] = store[j]

\* C15: writing an undeclared key: a strict config refuses (AttributeError in
\* attribute form, KeyError in bracket form) and keeps its keys and values; a
\* flexible config accepts, and the key is then reported by membership, comes
\* in iteration after the keys that were there, and makes the config differ
\* from what it was.
UndeclaredWrite(i, k, v, refused) ==
    IF Strict
    THEN outcome' = refused /\ store' = store
    ELSE /\ outcome' = "ok"
         /\ __contains__(cfgType, store'[i], k)
         /\ DGet(store'[i], k) = v
         /\ __iter__(cfgType, store'[i]) =
               (IF __contains__(cfgType, store[i], k)
                THEN __iter__(cfgType, store[i])
                ELSE Append(__iter__(cfgType, store[i]), k))
         /\ OthersKept(i, k)
         /\ ~__contains__(cfgType, store[i], k)
            => /\ ~__eq__(cfgType, store'[i], store[i], ClassVars(ClassOf(cfgType, i)),
                           ClassVars(ClassOf(cfgType, i)))
               /\ ~__eq__(cfgType, store[i], store'[i], ClassVars(ClassOf(cfgType, i)),
                           ClassVars(ClassOf(cfgType, i)))
C15_Step ==
    \A i \in created, k \in WriteKeys : \A v \in WriteVals(k) :
       ~Declared(k)
       => /\ SetAttr(i, k, v) => UndeclaredWrite(i, k, v, "AttributeError")
          /\ SetItem(i, k, v) => UndeclaredWrite(i, k, v, "KeyError")
C15_UndeclaredKey == [][C15_Step]_vars
C15_Witness ==
    /\ cfgType = "FlexibleConfig" /\ op.name = "setitem" /\ outcome = "ok"
    /\ DKeys(store["A"]) = <<"eggs", "name">>


\* C16: rebuilding a config from its defining type and its exported key-value
\* map succeeds and gives a config equal to the original, whatever valid
\* writes, key additions and deletions came before.
C16_RoundTrip ==
    op.name = "reconstruct"
    => /\ outcome = "ok"
       /\ __eq__(cfgType, store[Other(op.inst)], store[op.inst],
                 ClassVars(ClassOf(cfgType, Other(op.inst))),
                 ClassVars(ClassOf(cfgType, op.inst)))
       /\ __eq__(cfgType, store[op.inst], store[Other(op.inst)],
                 ClassVars(ClassOf(cfgType, op.inst)),
                 ClassVars(ClassOf(cfgType, Other(op.inst))))
\* the part of C16 the code keeps: a strict config, which has exactly its
\* declared fields, round-trips
RoundTripWhenStrict == Strict => C16_RoundTrip
\* and a flexible config round-trips exactly when its keys are its fields
RoundTripWhenFields ==
    (op.name = "reconstruct" /\ DKeySet(store[op.inst]) = {"eggs"}) => C16_RoundTrip


\* C17: an override call validates every proposed change before applying any:
\* when all are valid the call succeeds, the changes are applied and the
\* staged snapshot is the whole state from before the call; when one is
\* invalid (undeclared key on a strict config, or a value the hook rejects) the
\* call fails with the validation error and values, staged snapshot and scope
\* stack are as before.
ValidChange(i, kv) ==
    /\ Strict => DHas(store[i], kv[1])
    /\ _on_setattr(cfgType, kv[1], kv[2]).ok
AllValid(i, kw) == \A n \in 1..Len(kw) : ValidChange(i, kw[n])
C17_Step ==
    \A i \in created : \A kw \in Overrides(cfgType) :
       Call(i, kw)
       => IF AllValid(i, kw)
          THEN /\ outcome' = "ok"
               /\ _prev'[ClassOf(cfgType, i)] = Snap(store[i])
               /\ \A n \in 1..Len(kw) : DGet(store'[i], kw[n][1]) = kw[n][2]
          ELSE /\ outcome' \in {"AttributeError", "KeyError", "AssertionError"}
               /\ UNCHANGED <<store, _prev, _context_stack>>
C17_AllOrNothing == [][C17_Step]_vars
\* what the code does instead: a call with any keyword stops at the lookup of
\* _check_config, before a snapshot is taken or a value written
CallWithKeywordsFails ==
    (op.name = "call" /\ op.kw # <<>>) => outcome = "AttributeError"


\* C18: every write, attribute form or bracket form, passes the new value
\* through the validation hook of the type before storing: when the hook
\* accepts, the stored value is the value the hook returns; when it fails, its
\* error propagates and that key and every other key keep their values.
HookedWrite(i, k, v) ==
    LET h == _on_setattr(cfgType, k, v) IN
    IF h.ok
    THEN /\ outcome' = "ok"
         /\ DGet(store'[i], k) = h.value
         /\ OthersKept(i, k)
    ELSE /\ outcome' = h.err
         /\ store' = store
C18_Step ==
    \A i \in created, k \in WriteKeys : \A v \in WriteVals(k) :
       (Strict => Declared(k))
       => /\ SetAttr(i, k, v) => HookedWrite(i, k, v)
          /\ SetItem(i, k, v) => HookedWrite(i, k, v)
C18_HookOnWrite == [][C18_Step]_vars
C18_Witness ==
    /\ cfgType = "MyConfig" /\ op.name = "setattr" /\ outcome = "AssertionError"
    /\ DKeys(store["A"]) = <<"eggs", "spam">>


\* C19: deleting a key: a strict config refuses every deletion with TypeError
\* and the key stays with its value; a flexible config asks the pre-delete
\* hook first and, when the hook does not fail, removes the key, which
\* membership, iteration and length no longer report; when the hook fails (the
\* backend-priority config refuses "algos" and "generators") the key stays
\* with its value.
Deleted(i, k, missing) ==
    IF Strict
    THEN outcome' = "TypeError" /\ store' = store
    ELSE IF ~_on_delattr(cfgType, k).ok
    THEN outcome' = _on_delattr(cfgType, k).err /\ store' = store
    ELSE IF ~DHas(store[i], k)
    THEN outcome' = missing /\ store' = store
    ELSE /\ outcome' = "ok"
         /\ ~__contains__(cfgType, store'[i], k)
         /\ \A n \in 1..Len(__iter__(cfgType, store'[i])) :
               __iter__(cfgType, store'[i])[n] # k
         /\ __len__(cfgType, store'[i]) = __len__(cfgType, store[i]) - 1
         /\ OthersKept(i, k)
\* pairs a backend-priority config holds: its two lists and one algorithm name
PriorityPairs == << <<"algos", 1>>, <<"generators", 1>>, <<"foo", 1>> >>
PriorityLists ==
    \A k \in {"algos", "generators"} :
       LET r == __delattr__("BackendPriorities", PriorityPairs, k) IN
       r.err = "TypeError" /\ r.d = PriorityPairs
C19_Step ==
    /\ PriorityLists
    /\ \A i \in created, k \in WriteKeys :
          /\ DelAttr(i, k) => Deleted(i, k, "AttributeError")
          /\ DelItem(i, k) => Deleted(i, k, "KeyError")
C19_Delete == [][C19_Step]_vars
C19_Witness ==
    /\ cfgType = "FlexibleConfig" /\ op.name = "delattr" /\ outcome = "ok"
    /\ store["A"] = << <<"name", 1>> >>


\* the name is a key of the config as `in` and iteration report it, with a
\* value held
Present(i, k) == DHas(store[i], k)
\* C20 as stated: a read returns the stored value when the key is present;
\* a read of a key that is not present fails on a strict config and returns a
\* default instead of failing on a flexible one; reads never change the config.
ReadAsStated(i, k) ==
    /\ UNCHANGED <<store, _prev, _context_stack>>
    /\ IF Present(i, k)
       THEN outcome' = "ok" /\ op'.value = DGet(store[i], k) /\ op'.obj = NoObj
       ELSE IF Strict THEN outcome' \in {"AttributeError", "KeyError"}
       ELSE outcome' = "ok"
C20_AsStatedStep ==
    \A i \in created, k \in ReadKeys(cfgType) :
       /\ GetAttr(i, k) => ReadAsStated(i, k)
       /\ GetItem(i, k) => ReadAsStated(i, k)
C20_AsStated == [][C20_AsStatedStep]_vars

\* C20: a read returns the stored value when the key is present.  A name that
\* is not present is looked up on the class of the config, on a strict and on
\* a flexible config alike: a declared field with a class-level default reads
\* as that default once it has been deleted from a flexible config, and a
\* method or class variable (items, _strict, _prev, and __dict__ on a flexible
\* config) reads as that attribute, although it is no key of the config; any
\* other name fails, with AttributeError in attribute form and KeyError in
\* bracket form; get(key) returns None (or the default passed) exactly where
\* the other two fail; reads never change the config.
OnClass(k) ==
    k \in {"_prev", "_strict", "items"} \/ (k = "__dict__" /\ ~Strict)
ClassRead(i, k) ==
    /\ ~__contains__(cfgType, store[i], k)
    /\ op'.obj.kind # "none"
    /\ k = "_strict" => op'.obj = [kind |-> "bool", b |-> Strict]
    /\ k = "_prev" => op'.obj = [kind |-> "_prev", snap |-> _prev[ClassOf(cfgType, i)]]
    /\ k = "items" => op'.obj = [kind |-> "method", name |-> "items"]
ReadResult(i, k, missing, fails) ==
    /\ UNCHANGED <<store, _prev, _context_stack>>
    /\ IF Present(i, k)
       THEN outcome' = "ok" /\ op'.value = DGet(store[i], k) /\ op'.obj = NoObj
       ELSE IF HasDefault(cfgType, k)
       THEN outcome' = "ok" /\ op'.value = DefaultOf(cfgType, k) /\ op'.obj = NoObj
       ELSE IF OnClass(k) THEN outcome' = "ok" /\ ClassRead(i, k)
       ELSE IF fails THEN outcome' = missing
       ELSE outcome' = "ok" /\ op'.value = NoneVal /\ op'.obj = NoObj
C20_Step ==
    \A i \in created, k \in ReadKeys(cfgType) :
       /\ GetAttr(i, k) => ReadResult(i, k, "AttributeError", TRUE)
       /\ GetItem(i, k) => ReadResult(i, k, "KeyError", TRUE)
       /\ Get(i, k) => ReadResult(i, k, "ok", FALSE)
C20_Read == [][C20_Step]_vars
\* a class variable read in bracket form, after an override call staged a
\* snapshot: the read gives the snapshot though the name is no key
ClassVarRead ==
    /\ op.name = "getitem" /\ outcome = "ok"
    /\ op.obj.kind = "_prev" /\ op.obj.snap.some
C20_Witness ==
    /\ cfgType = "FlexibleConfig" /\ op.name = "getitem" /\ outcome = "KeyError"
    /\ store["A"] = << <<"eggs", 1>> >>


(***************************************************************************)
(* Properties over several calls of one process (checked under             *)
(* DispatchSpec)                                                           *)
(***************************************************************************)
\* a step that makes a dispatch call, in normal or in harness mode
CallStep == call.op = "idle" /\ call'.op \in {"call", "hcall"}
MarkStep == call.op = "idle" /\ call'.op = "mark"
\* the entry points are read from the environment only while _items is None
EntriesReadOnce ==
    /\ _items => _items'
    /\ _items => \A n \in 1..Len(events') : events'[n].ev # "entry_points"
    /\ Cardinality({n \in 1..Len(events') : events'[n].ev = "entry_points"}) <= 1
\* a backend is loaded only inside a call that selects it, or by the test
\* hook that asks the backend under test for on_start_tests
LoadedOnDemand ==
    /\ imported' # imported => CallStep \/ MarkStep
    /\ MarkStep => /\ imported' = imported \cup Loads(events')
                   /\ Loads(events') = {forced} \ {NoPlugin}
                   /\ Loads(events') \subseteq installed
    /\ CallStep => /\ imported' = imported \cup Loads(events')
                   /\ Loads(events') \subseteq installed
                   /\ Cardinality(Loads(events')) <= 1
                   /\ call'.op = "hcall" => Loads(events') \subseteq {forced}
                   /\ call'.op = "call" => Loads(events') \subseteq Tags'
\* a backend loaded by an earlier call is not loaded again
LoadedOnce == CallStep => Loads(events') \cap imported = {}

\* C21: plugin loading is lazy, idempotent and cached: the entry points are
\* read at most once per process, a backend is never loaded before a call
\* needs it, and over any sequence of calls the loader of a backend is resolved
\* at most once, later calls reusing the cached backend object.
C21_LoadCached == [][EntriesReadOnce /\ LoadedOnDemand /\ LoadedOnce]_vars
\* the parts of C21 the code keeps
EntriesOnceLoadOnDemand == [][EntriesReadOnce /\ LoadedOnDemand]_vars


(***************************************************************************)
(* Scopes entered without an override call (checked under Spec)            *)
(***************************************************************************)
\* the innermost block was entered bare, with nothing staged: `with cfg:`
BareScope == scopes # <<>> /\ ~Innermost.override /\ Innermost.pushed = NoSnap
ScopeClass == ClassOf(cfgType, Innermost.inst)

\* C22: a scope entered without a preceding override call (nothing staged) is
\* left by a no-op restore: exit pops exactly the entry its enter pushed,
\* leaves every config value as it was at exit time, and leaves the entries of
\* the enclosing scopes on the stack, where they are what those scopes pushed.
C22_Step ==
    (ExitStep /\ BareScope)
    => LET stk == _context_stack[ScopeClass] IN
       /\ stk # <<>>
       /\ stk[Len(stk)] = Innermost.pushed
       /\ _context_stack'[ScopeClass] = SubSeq(stk, 1, Len(stk) - 1)
       /\ store' = store
       /\ outcome' \in {"ok", "propagates"}
       /\ Len(_context_stack'[ScopeClass]) = Len(scopes')
       /\ \A n \in 1..Len(scopes') : _context_stack'[ScopeClass][n] = scopes'[n].pushed
C22_BareScope == [][C22_Step]_vars
\* a bare scope inside an entered scope has been left; the enclosing one is open
C22_Witness ==
    /\ op.name = "exit" /\ ~op.override /\ outcome = "ok"
    /\ Len(scopes) = 1
    /\ Len(_context_stack[ClassOf(cfgType, "A")]) = 1


(***************************************************************************)
(* The harness and the attribute arguments (checked under HarnessSpec)     *)
(***************************************************************************)
\* the bound arguments of the harness call, defaults applied
HBound == Bind(Signature(CDecl.func), call.args, call.kwds).bound
\* the call gets as far as the attribute specs
ReachesAttrs ==
    /\ HarnessCalled /\ call.name \in Implements(forced) /\ Binds
    /\ InvalidNames(CDecl, HBound) = {}
Converted == Invoked("convert_from_nx")
\* preserve-all is in effect: the literal True, or a bound argument that is True
PreserveAll(flag) ==
    \/ flag = "True"
    \/ IsString(flag) /\ DHas(HBound, StrOf(flag)) /\ DGet(HBound, StrOf(flag)) = "True"
\* entry n of a mapping spec: key and default, each read from the bound arguments
MapEntry(map, n, dflt) ==
    <<DGet(HBound, map[n][1]),
      IF map[n][3] THEN (IF DHas(HBound, map[n][2]) THEN DGet(HBound, map[n][2]) ELSE dflt)
      ELSE map[n][2]>>
\* attrs is the dict of a mapping spec: every pair comes from a declared
\* entry, and every declared entry is there unless a later one has its key
FromMapping(attrs, map, dflt) ==
    /\ ~attrs.none
    /\ \A pair \in DItems(attrs.d) : \E n \in 1..Len(map) : pair = MapEntry(map, n, dflt)
    /\ \A n \in 1..Len(map) :
          (\A m \in (n + 1)..Len(map) : MapEntry(map, m, dflt)[1] # MapEntry(map, n, dflt)[1])
          => MapEntry(map, n, dflt) \in DItems(attrs.d)
\* attrs is what the attribute spec gives with the bound arguments
FromSpec(attrs, spec, dflt) ==
    IF spec.kind = "none" THEN attrs = NoneAttrs
    ELSE IF spec.kind = "str" /\ IsListForm(spec.arg)
    THEN LET names == Iterate(DGet(HBound, ListParam(spec.arg))).items IN
         /\ ~attrs.none
         /\ DItems(attrs.d) = {<<names[n], dflt>> : n \in 1..Len(names)}
    ELSE IF spec.kind = "str"
    THEN attrs = DictAttrs(<< <<DGet(HBound, spec.arg), dflt>> >>)
    ELSE FromMapping(attrs, spec.map, dflt)
PreserveFirst(flag, attrs, preserve, spec, dflt) ==
    IF PreserveAll(flag) THEN preserve /\ attrs = NoneAttrs
    ELSE ~preserve /\ FromSpec(attrs, spec, dflt)

\* C23: preserve-all takes precedence over the attribute list, for edges and
\* for nodes independently: with the flag the literal True, or a string naming
\* a bound argument that is True, convert_from_nx receives preserve=True and
\* attrs=None whatever spec was registered; in every other case it receives
\* preserve=False and the attrs computed from the spec.
C23_PreserveFirst ==
    ReachesAttrs
    => /\ Converted # {}
       /\ \A n \in Converted :
             /\ PreserveFirst(CDecl.preserve_edge_attrs, events[n].kwds.edge_attrs,
                              events[n].kwds.preserve_edge_attrs, CDecl.edge_attrs, "1")
             /\ PreserveFirst(CDecl.preserve_node_attrs, events[n].kwds.node_attrs,
                              events[n].kwds.preserve_node_attrs, CDecl.node_attrs, "None")
\* the node mapping is computed: preserve-all is off and node_attrs is a dict
NodeMappingComputed ==
    CDecl.node_attrs.kind = "dict" /\ ~PreserveAll(CDecl.preserve_node_attrs)
\* a spec of the form "[name]" in effect finds a value it can iterate over
NamesIterable(spec, flag) ==
    (spec.kind = "str" /\ IsListForm(spec.arg) /\ ~PreserveAll(flag))
    => Iterate(DGet(HBound, ListParam(spec.arg))).err = ""
ListsIterable ==
    /\ NamesIterable(CDecl.edge_attrs, CDecl.preserve_edge_attrs)
    /\ NamesIterable(CDecl.node_attrs, CDecl.preserve_node_attrs)
\* what the code keeps of C23: every call but those that compute a node
\* mapping, the caller giving a list of names where the spec asks for one
PreserveFirstButNodeMapping ==
    (ReachesAttrs /\ ~NodeMappingComputed /\ ListsIterable) => C23_PreserveFirst
\* a list of two names reached the backend as two edge attributes
ListFormSeen ==
    /\ HarnessCalled /\ call.name = "listed" /\ Converted # {}
    /\ \A n \in Converted :
          /\ events[n].kwds.edge_attrs = DictAttrs(<< <<"'w'", "1">>, <<"'v'", "1">> >>)
          /\ events[n].kwds.node_attrs = DictAttrs(<< <<"'w'", "None">> >>)
\* a value that is no list of names stops the call before any conversion
ListFormTypeError ==
    (ReachesAttrs /\ ~ListsIterable) => result.exc = "TypeError" /\ Converted = {}


\* C24: when the attribute spec is a mapping and preserve-all is not in
\* effect, the spec passed to convert_from_nx has one entry per declared
\* entry: its key is the attribute name held in the bound argument the
\* declared key names, its value the declared default, read from the bound
\* argument of that name when it is a string (else 1 for edges, None for
\* nodes); for the node spec exactly as for the edge spec.
EdgeMapping ==
    (CDecl.edge_attrs.kind = "dict" /\ ~PreserveAll(CDecl.preserve_edge_attrs))
    => /\ Converted # {}
       /\ \A n \in Converted :
             FromMapping(events[n].kwds.edge_attrs, CDecl.edge_attrs.map, "1")
NodeMapping ==
    NodeMappingComputed
    => /\ Converted # {}
       /\ \A n \in Converted :
             FromMapping(events[n].kwds.node_attrs, CDecl.node_attrs.map, "None")
C24_Mapping == ReachesAttrs => (EdgeMapping /\ NodeMapping)
\* what the code keeps of C24: the edge mapping, when the node spec does not
\* stop the call first
EdgeMappingOnly == (ReachesAttrs /\ ~NodeMappingComputed) => EdgeMapping
\* and what it does with a node mapping: NameError, nothing converted
NodeMappingFails ==
    (ReachesAttrs /\ NodeMappingComputed
        /\ Preserve(CDecl.preserve_edge_attrs, HBound).err = ""
        /\ EdgeAttrs(CDecl.edge_attrs, PreserveAll(CDecl.preserve_edge_attrs), HBound).err = "")
    => result.exc = "NameError" /\ Converted = {}
\* an edge mapping with a default read from a bound argument reached the backend
EdgeMappingSeen ==
    /\ ReachesAttrs /\ call.name = "edges" /\ Converted # {}
    /\ \A n \in Converted :
          events[n].kwds.edge_attrs = DictAttrs(<< <<"'w'", "nx">>, <<"nx", "1">> >>)


\* every bound argument, the graphs converted
ConvertedKwds ==
    [k \in DKeySet(HBound) |->
        IF k \in {CGraphs[n][1] : n \in Entries}
        THEN convert_from_nx(forced, DGet(HBound, k)) ELSE DGet(HBound, k)]
\* event n + 1 is the conversion of graph-spec entry n: the original graph,
\* the attribute specs computed from the decoration and the bound arguments,
\* the preserve flags, the name
ConvertsEntry(n) ==
    /\ events[n + 1].ev = "convert_from_nx" /\ events[n + 1].who = forced
    /\ events[n + 1].name = call.name
    /\ events[n + 1].args = <<DGet(HBound, CGraphs[n][1])>>
    /\ PreserveFirst(CDecl.preserve_edge_attrs, events[n + 1].kwds.edge_attrs,
                     events[n + 1].kwds.preserve_edge_attrs, CDecl.edge_attrs, "1")
    /\ PreserveFirst(CDecl.preserve_node_attrs, events[n + 1].kwds.node_attrs,
                     events[n + 1].kwds.preserve_node_attrs, CDecl.node_attrs, "None")
HarnessOrder ==
    /\ Len(events) = Len(CGraphs) + 3
    /\ events[1] = Ev("load", forced)
    /\ \A n \in Entries : ConvertsEntry(n)
    /\ events[Len(CGraphs) + 2] = EvCall("backend", forced, call.name, <<>>, ConvertedKwds)
    /\ events[Len(CGraphs) + 3] = EvCall("convert_to_nx", forced, call.name, <<>>, <<>>)
    /\ result.kind = "return" /\ result.to_nx /\ result.impl = forced
    /\ KwdsOf(result.value) = ConvertedKwds

\* C14: in harness mode with a forced backend that implements the algorithm, a
\* call whose arguments bind to the graph names, giving a list of names where
\* a spec asks for one, loads the backend, then calls convert_from_nx once per
\* graph-spec entry, in order, each with the original graph, the computed edge
\* and node attribute specs, the preserve flags and the name, then calls the
\* backend method once with every bound argument, the graphs converted, then
\* convert_to_nx once, whose value the call returns.  The native function is
\* not invoked, whatever tags the graph arguments carry.
C14_HarnessOrder == (ReachesAttrs /\ ListsIterable) => HarnessOrder
\* what the code keeps of C14: every call but those that compute a node mapping
HarnessOrderButNodeMapping ==
    (ReachesAttrs /\ ListsIterable /\ ~NodeMappingComputed) => HarnessOrder
\* a tagged graph and a computed edge spec went through the three steps
ComputedOrderSeen ==
    /\ ReachesAttrs /\ call.name = "edges" /\ call.args = <<"gs", "'w'">>
    /\ Len(events) = 4 /\ events[2].args = <<"gs">>
    /\ events[2].kwds.edge_attrs = DictAttrs(<< <<"'w'", "None">>, <<"None", "1">> >>)
    /\ result.kind = "return" /\ result.to_nx
\* two graph-spec entries, the optional one omitted, converted in order
TwoEntriesSeen ==
    /\ ReachesAttrs /\ call.name = "pair" /\ call.args = <<"nx">>
    /\ Len(events) = 5 /\ events[2].args = <<"nx">> /\ events[3].args = <<"None">>
    /\ result.kind = "return"


\* C25 as stated: the arguments are bound before the backend is resolved and
\* checked for the method, so a call whose arguments do not bind ends in the
\* binding error even when the forced backend lacks the algorithm.
C25_BindFirst ==
    (HarnessCalled /\ ~Binds) => (result.exc = "TypeError" /\ result.msg = "bind")

\* C25: the forced backend is loaded and checked for the algorithm's method
\* before the arguments are bound: a call whose arguments do not bind ends in
\* the not-implemented failure (hard for nx-loopback, soft otherwise) when the
\* backend lacks the algorithm, and in the binding error only when the
\* backend has it; in both cases the load is all the call did.
LoadOnly == events = <<Ev("load", forced)>> /\ result.kind = "raise"
C25_BackendFirst ==
    (HarnessCalled /\ ~Binds)
    => /\ LoadOnly
       /\ IF call.name \in Implements(forced)
          THEN result.exc = "TypeError" /\ result.msg = "bind"
          ELSE IF forced = "nx-loopback"
          THEN result.exc = "NetworkXNotImplemented"
          ELSE result.exc = "XFailed"
C25_Witness ==
    /\ HarnessCalled /\ ~Binds /\ forced = "demo" /\ call.name = "edges"
    /\ result.exc = "XFailed"
\* the binding error of a call on a backend that has the algorithm
BindErrorSeen ==
    /\ HarnessCalled /\ ~Binds /\ forced = "sparse" /\ result.exc = "TypeError"

\* C26 as stated: a graph-spec name that is not among the bound parameter
\* names makes the call fail with the invalid-graph-names KeyError, before any
\* convert_from_nx call, the backend method and convert_to_nx.
NamesError ==
    /\ result.exc = "KeyError" /\ result.msg = "Invalid graph names"
    /\ result.tags = InvalidNames(CDecl, HBound)
    /\ Converted = {} /\ Invoked("backend") = {} /\ Invoked("convert_to_nx") = {}
C26_InvalidNames ==
    (HarnessCalled /\ Binds /\ InvalidNames(CDecl, HBound) # {}) => NamesError

\* C26: when the forced backend has the algorithm's method and the arguments
\* bind, a graph-spec name that is not among the bound parameter names makes
\* the call fail with the invalid-graph-names KeyError, naming those names,
\* before any convert_from_nx call, the backend method and convert_to_nx; when
\* the backend lacks the method the call ends in the not-implemented failure
\* instead.
C26_InvalidNamesAfterBackend ==
    (HarnessCalled /\ Binds /\ InvalidNames(CDecl, HBound) # {})
    => /\ LoadOnly
       /\ IF call.name \in Implements(forced) THEN NamesError
          ELSE result.exc \in {"XFailed", "NetworkXNotImplemented"}
C26_Witness ==
    /\ HarnessCalled /\ Binds /\ call.name = "ghost" /\ forced = "sparse"
    /\ result.exc = "KeyError" /\ result.tags = {"X"}
    /\ events = <<Ev("load", "sparse")>>


(***************************************************************************)
(* One call, one outcome (checked under DispatchSpec)                      *)
(***************************************************************************)
\* the implementations a call ran: the native function or a backend's method
Ran == Invoked("native") \cup Invoked("backend")
\* the call failed before an implementation was chosen to run
FailedBefore ==
    /\ result.kind = "raise"
    /\ \/ result.exc \in {"ImportError", "NetworkXNotImplemented"}
       \/ result.exc = "TypeError" /\ result.msg # "bind"

\* C27: in normal dispatch every call is one terminal outcome: at most one
\* implementation runs, at most once, the native function or the backend's
\* method and never both; a call that fails (argument resolution, mismatch,
\* unavailable, not implemented, or an error of the implementation) is not
\* retried and does not fall back to the other implementation; a failed call
\* returns no value.
C27_OneOutcome ==
    Called
    => /\ Cardinality(Ran) <= 1
       /\ Cardinality(Invoked("load")) <= 1
       /\ result.kind \in {"return", "raise"}
       /\ result.kind = "raise" => result.value = <<>>
       /\ FailedBefore => Ran = {}
       /\ Invoked("native") # {} => ResolutionOk /\ Tags = {}
       /\ Invoked("backend") # {} => ResolutionOk /\ Tags = {result.impl}
       /\ ~FailedBefore
          => /\ Ran = {Len(events)}
             /\ events[Len(events)].who = result.impl
             /\ result.kind = "raise" => result.exc = "TypeError" /\ result.msg = "bind"
C27_Witness ==
    /\ Called /\ result.kind = "raise" /\ result.exc = "NetworkXNotImplemented"
    /\ events = <<Ev("load", "demo")>>
\* a backend's method raised: it ran once, the native function did not
BackendErrorSeen ==
    /\ Called /\ result.kind = "raise" /\ result.msg = "bind" /\ result.impl = "sparse"
    /\ Cardinality(Invoked("backend")) = 1 /\ Invoked("native") = {}

\* Priority values written in the checks: lists of backend names, a list with
\* an item that is not a string, and a value that is not a list
PStr(x) == [str |-> TRUE, name |-> x]
PList(items) == [list |-> TRUE, items |-> items]
PriorityValues ==
    {PList(<<>>), PList(<<PStr("sparse")>>), PList(<<PStr("demo"), PStr("sparse")>>),
     PList(<<PStr("sparse"), PStr("bogus")>>),
     PList(<<PStr("sparse"), [str |-> FALSE, name |-> "1"]>>),
     [list |-> FALSE, items |-> <<>>]}
PriorityKeys == {"algos", "generators", "foo", "pair", "zzz"}
IsNameList(v) == v.list /\ \A n \in 1..Len(v.items) : v.items[n].str

\* What C28 says of a write key = v whose outcome is err and which leaves the
\* pairs d, on a backend-priority config that held no pairs
PriorityWriteAsStated(key, v, err, d) ==
    IF key \in {"algos", "generators"}
    THEN IF ~IsNameList(v) THEN err = "TypeError" /\ d = <<>>
         ELSE IF ~(PriorityNames(v) \subseteq installed)
         THEN err = "ValueError" /\ d = <<>>
         ELSE err = "ok" /\ d = << <<key, v>> >>
    ELSE IF key \in DKeySet(_registered_algorithms)
    THEN err = "ok" /\ d = << <<key, v>> >>
    ELSE err # "ok" /\ d = <<>>

\* C28: a write to "algos" or "generators" of the backend-priority config is
\* stored only if the value is a list of strings each naming an installed
\* backend; a value that is not a list of strings fails with a type error, a
\* list with a name that is not an installed backend fails with a value error,
\* and a write to any other key fails unless the key is the name of a
\* registered algorithm; a failing write leaves what was stored unchanged.
C28_PriorityValidation ==
    \A key \in PriorityKeys, v \in PriorityValues :
       LET r == __setattr__("BackendPriorities", <<>>, key, v) IN
       PriorityWriteAsStated(key, v, r.err, r.d)

\* What the code does: every write stops at the hook's import statement and
\* stores nothing, the writes of the dataclass __init__ included
PriorityWritesStop ==
    \A key \in PriorityKeys, v \in PriorityValues :
       LET r == __setattr__("BackendPriorities", <<>>, key, v) IN
       r.err = "ImportError" /\ r.d = <<>>

\* The statements after the import do what C28 says, were the backend table
\* the installed backends
PriorityChecksAsStated ==
    \A key \in PriorityKeys, v \in PriorityValues :
       LET h == priority_checks(key, v, installed, DKeySet(_registered_algorithms)) IN
       PriorityWriteAsStated(key, v, h.err,
                             IF h.ok THEN << <<key, h.value>> >> ELSE <<>>)
\* a state in which the cases of the checks differ: one backend installed,
\* one algorithm registered
PriorityCasesSeen ==
    /\ installed = {"sparse"} /\ DKeySet(_registered_algorithms) = {"foo"}

\* The with-blocks open on the instances whose runtime class is c
OpenScopes(c) == {n \in 1..Len(scopes) : ClassOf(cfgType, scopes[n].inst) = c}
ScopeDepth == \A c \in ClassIds : Len(_context_stack[c]) = Cardinality(OpenScopes(c))
\* An exit finds an entry to pop, and it is the entry the enter of the block
\* it closes pushed
ExitPopsItsEntry ==
    op'.name = "exit" =>
       LET blk == scopes[Len(scopes)]
           stk == _context_stack[ClassOf(cfgType, blk.inst)] IN
       /\ outcome' # "IndexError"
       /\ stk # <<>> /\ stk[Len(stk)] = blk.pushed
       /\ _context_stack'[ClassOf(cfgType, blk.inst)] = Pop(stk)
\* A further instance of a flexible type is created while a with-block is open
NewInsideScope == cfgType = "FlexibleConfig" /\ created' # created /\ scopes # <<>>

\* C29: in every state reached by override calls, scope enters, scope exits,
\* direct writes and deletes, and the creation of further instances of the
\* same defining type, the scope stack holds as many snapshots as there are
\* scopes entered and not yet exited; so every exit of an entered scope finds
\* an entry to pop, and that entry is the one its matching enter pushed.
C29_ScopeDepth == [][ScopeDepth' /\ ExitPopsItsEntry]_vars

\* What holds: a strict type keeps the depth and every exit pops its entry
ScopeDepthStrict ==
    [][cfgType = "MyConfig" => ScopeDepth' /\ ExitPopsItsEntry]_vars
\* and on a flexible type every step keeps the depth, but the creation of an
\* instance inside a with-block, which empties the stack of the open blocks;
\* an exit from a state with the right depth pops its entry
ScopeDepthKeptButByNew ==
    [][ScopeDepth /\ ~NewInsideScope => ScopeDepth' /\ ExitPopsItsEntry]_vars
\* a block of A was open when B was created, and its exit found nothing to pop
ExitAfterNewSeen ==
    /\ cfgType = "FlexibleConfig" /\ created = {"A", "B"}
    /\ op.name = "exit" /\ op.inst = "A" /\ outcome = "IndexError"
\* two nested blocks, of A and of B, on a strict type and on a flexible type
NestedScopesSeen ==
    /\ Len(scopes) = 2 /\ scopes[1].inst = "A" /\ scopes[2].inst = "B" /\ ScopeDepth

\* An operation on one instance leaves the pairs of every other instance
OthersUntouched == \A j \in Insts : j # op'.inst => store'[j] = store[j]
\* An enter of i pushes nothing taken from another instance
PushesOwn == op'.name = "enter" => scopes'[Len(scopes')].by \in {Nobody, op'.inst}
\* An exit of i applies nothing taken from another instance: the block it
\* closes holds None or a snapshot of i, and the exit leaves i with the pairs
\* it had, each key of that snapshot taking the snapshot's value
RestoresOwn ==
    (op'.name = "exit" /\ outcome' # "IndexError") =>
       LET blk == scopes[Len(scopes)]
           i == blk.inst IN
       /\ blk.by \in {Nobody, i}
       /\ IF blk.by = Nobody THEN store'[i] = store[i]
          ELSE \A k \in DKeySet(store'[i]) :
                  DGet(store'[i], k) = IF DHas(blk.pushed.d, k) THEN DGet(blk.pushed.d, k)
                                       ELSE DGet(store[i], k)

\* C30: for two distinct instances A and B of one defining type, in any
\* sequential interleaving of override calls, scope enters and scope exits on
\* A and on B, an operation on A never changes a value of B: a snapshot staged
\* or pushed by an override of A is never applied to B, and B's exit restores
\* only a snapshot taken from B.
C30_Isolation == [][OthersUntouched /\ PushesOwn /\ RestoresOwn]_vars

\* What holds: instances of a strict type are isolated, each having a runtime
\* class of its own
IsolationStrict ==
    [][cfgType = "MyConfig" => OthersUntouched /\ PushesOwn /\ RestoresOwn]_vars
\* and on a flexible type no operation writes the pairs of another instance
\* itself; what crosses is the entry an enter of B finds staged by A
OthersUntouchedAlways == [][OthersUntouched]_vars
\* B left a bare block with the value A had when A's override call was made
ForeignRestoreSeen ==
    /\ cfgType = "FlexibleConfig" /\ op.name = "exit" /\ op.inst = "B" /\ outcome = "ok"
    /\ ~op.override
    /\ DHas(store["A"], "eggs") /\ DHas(store["B"], "eggs")
    /\ DGet(store["A"], "eggs") = 1 /\ DGet(store["B"], "eggs") = 1
\* on a strict type B left an override block of its own while A had a staged
\* snapshot
OwnRestoreSeen ==
    /\ cfgType = "MyConfig" /\ op.name = "exit" /\ op.inst = "B" /\ outcome = "ok"
    /\ op.override /\ stagedBy["A"] = "A"

====
